---- MODULE Spec2Model ----
(***************************************************************************)
(* Hole-containment oracles (exact polygon, quad tree, Bloom filter) and   *)
(* the pose-scoring pipeline of the icfpc-2021 solver, as state machines.  *)
(* Points are pairs <<x, y>> of integers; a hole is the sequence of its    *)
(* vertices (the closing edge from the last to the first is implicit).     *)
(***************************************************************************)
EXTENDS Integers, Sequences, FiniteSets, TLC

VARIABLES
    problem,      \* the Problem under work: [hole, figure |-> [edges, vertices], epsilon]
    opc,          \* oracle machine: "idle", or which backend has answered
    qtree,        \* the outcome of GeoHoleQuadTree::new once it ran
    bloom,        \* GeoHoleBloom once built: [bits, field_min, field_max, hash_fns_seeds]
    qa, qb,       \* the two points of the query in flight
    ans,          \* [orig, test]: the exact answer and the backend's, as the autochecks name them
    pose,         \* the candidate vertices handed to the scoring pipeline
    bonus,        \* the PoseBonus selected for the scoring call: "None" or its kind
    spc,          \* scoring machine: "idle", or which call has returned
    result,       \* what the scoring call returned
    hits,         \* the HITS_* statistics counters of the quad tree
    calls,        \* the is_edge_invalid call each thread has in flight
    shared_bits,  \* the bit array under the RwLock while GeoHoleBloom::new fills it
    workers,      \* the position of each worker of the parallel fill
    sa,           \* the SimulatedAnnealingSolver once constructed
    returned      \* what the last call on the annealing solver returned

vars == <<problem, opc, qtree, bloom, qa, qb, ans, pose, bonus, spc, result, hits, calls, shared_bits, workers,
         sa, returned>>

-----------------------------------------------------------------------------
(* Integer helpers *)

Abs(n) == IF n < 0 THEN -n ELSE n
Min2(a, b) == IF a < b THEN a ELSE b
Max2(a, b) == IF a < b THEN b ELSE a
SetMin(S) == CHOOSE m \in S : \A n \in S : m <= n
SetMax(S) == CHOOSE m \in S : \A n \in S : m >= n
Sign(n) == IF n > 0 THEN 1 ELSE IF n < 0 THEN -1 ELSE 0

Range(s) == {s[i] : i \in 1..Len(s)}

-----------------------------------------------------------------------------
(* Planar predicates on lattice points, as the geo crate computes them on  *)
(* integer-valued f64 coordinates (all products below are exact in f64).   *)

\* kernels::orient2d: 1 counter-clockwise, -1 clockwise, 0 collinear
Orient(p, q, r) ==
    Sign((q[1] - p[1]) * (r[2] - p[2]) - (q[2] - p[2]) * (r[1] - p[1]))

\* the point r lies in the bounding rectangle of the segment p-q
InBounds(r, p, q) ==
    /\ Min2(p[1], q[1]) <= r[1] /\ r[1] <= Max2(p[1], q[1])
    /\ Min2(p[2], q[2]) <= r[2] /\ r[2] <= Max2(p[2], q[2])

OnSegment(r, p, q) == Orient(p, q, r) = 0 /\ InBounds(r, p, q)

\* the bounding rectangles of p1-p2 and q1-q2 share a point
BoundsIntersect(p1, p2, q1, q2) ==
    /\ Max2(p1[1], p2[1]) >= Min2(q1[1], q2[1])
    /\ Max2(q1[1], q2[1]) >= Min2(p1[1], p2[1])
    /\ Max2(p1[2], p2[2]) >= Min2(q1[2], q2[2])
    /\ Max2(q1[2], q2[2]) >= Min2(p1[2], p2[2])

\* the closed segments p1-p2 and q1-q2 share a point
SegmentsIntersect(p1, p2, q1, q2) ==
    LET a == Orient(p1, p2, q1)
        b == Orient(p1, p2, q2)
        c == Orient(q1, q2, p1)
        d == Orient(q1, q2, p2)
    IN  \/ (a * b < 0 /\ c * d < 0)
        \/ OnSegment(q1, p1, p2) \/ OnSegment(q2, p1, p2)
        \/ OnSegment(p1, q1, q2) \/ OnSegment(p2, q1, q2)

\* the segments cross in a point interior to both
ProperCross(p1, p2, q1, q2) ==
    /\ Orient(p1, p2, q1) * Orient(p1, p2, q2) < 0
    /\ Orient(q1, q2, p1) * Orient(q1, q2, p2) < 0

InRect(p, min, max) ==
    /\ min[1] <= p[1] /\ p[1] <= max[1]
    /\ min[2] <= p[2] /\ p[2] <= max[2]

\* Line::intersects(&Rect): the closed segment a-b meets the closed rectangle
LineIntersectsRect(a, b, min, max) ==
    \/ InRect(a, min, max)
    \/ InRect(b, min, max)
    \/ SegmentsIntersect(a, b, min, <<max[1], min[2]>>)
    \/ SegmentsIntersect(a, b, <<max[1], min[2]>>, max)
    \/ SegmentsIntersect(a, b, max, <<min[1], max[2]>>)
    \/ SegmentsIntersect(a, b, <<min[1], max[2]>>, min)

-----------------------------------------------------------------------------
(* The hole polygon *)

HoleEdgeFrom(hole, i) == hole[i]
HoleEdgeTo(hole, i) == hole[(i % Len(hole)) + 1]

Scale(p, k) == <<k * p[1], k * p[2]>>

\* the point x / k lies on the boundary ring of the hole
OnRing(hole, x, k) ==
    \E i \in 1..Len(hole) :
        OnSegment(x, Scale(HoleEdgeFrom(hole, i), k), Scale(HoleEdgeTo(hole, i), k))

\* edge i of the hole crosses the horizontal ray from x / k towards +x
RayCrosses(hole, i, x, k) ==
    LET p == Scale(HoleEdgeFrom(hole, i), k)
        q == Scale(HoleEdgeTo(hole, i), k)
        dy == q[2] - p[2]
        lhs == (x[1] - p[1]) * dy
        rhs == (x[2] - p[2]) * (q[1] - p[1])
    IN  /\ (p[2] > x[2]) # (q[2] > x[2])
        /\ IF dy > 0 THEN lhs < rhs ELSE lhs > rhs

\* the point x / k lies in the closed region of the hole (interior or boundary)
InHole(hole, x, k) ==
    \/ OnRing(hole, x, k)
    \/ Cardinality({i \in 1..Len(hole) : RayCrosses(hole, i, x, k)}) % 2 = 1

-----------------------------------------------------------------------------
(* ExactPolygonOracle: InvalidEdge for geo::Polygon<f64>.                  *)
(* contains(&Line) is the DE-9IM "contains" (no point of the segment in    *)
(* the exterior, some point in the interior), exterior().contains(&Line)   *)
(* is "the segment lies in the boundary ring"; their disjunction is "the   *)
(* closed segment lies in the closed region of the hole".                  *)

\* a, b and the hole vertices on the segment a-b cut it into pieces none of
\* which can cross the boundary unless a hole edge crosses it properly
BreakPoints(hole, a, b) == {a, b} \cup {v \in Range(hole) : OnSegment(v, a, b)}

Along(a, b, u) == (u[1] - a[1]) * (b[1] - a[1]) + (u[2] - a[2]) * (b[2] - a[2])

Consecutive(hole, a, b) ==
    LET BP == BreakPoints(hole, a, b)
    IN  {uw \in BP \X BP :
            /\ Along(a, b, uw[1]) < Along(a, b, uw[2])
            /\ ~\E z \in BP : /\ Along(a, b, uw[1]) < Along(a, b, z)
                              /\ Along(a, b, z) < Along(a, b, uw[2])}

SegmentInHole(hole, a, b) ==
    /\ InHole(hole, a, 1)
    /\ InHole(hole, b, 1)
    /\ \A i \in 1..Len(hole) :
            ~ProperCross(a, b, HoleEdgeFrom(hole, i), HoleEdgeTo(hole, i))
    /\ \A uw \in Consecutive(hole, a, b) :
            InHole(hole, <<uw[1][1] + uw[2][1], uw[1][2] + uw[2][2]>>, 2)

PolygonIsEdgeInvalid(hole, edge_from, edge_to) ==
    IF SegmentInHole(hole, edge_from, edge_to) THEN FALSE ELSE TRUE

-----------------------------------------------------------------------------
(* hole.relate(&rect): the two predicates of the intersection matrix that  *)
(* quad_tree_build reads.                                                  *)

\* bounds on the parameter t of a + t (b - a) for which the point lies
\* strictly between min and max on the given axis, as fractions <<n, d>>, d > 0
LowerBounds(a, b, min, max) ==
    {<<min[c] - a[c], b[c] - a[c]>> : c \in {c \in 1..2 : b[c] > a[c]}}
    \cup {<<a[c] - max[c], a[c] - b[c]>> : c \in {c \in 1..2 : b[c] < a[c]}}

UpperBounds(a, b, min, max) ==
    {<<max[c] - a[c], b[c] - a[c]>> : c \in {c \in 1..2 : b[c] > a[c]}}
    \cup {<<a[c] - min[c], a[c] - b[c]>> : c \in {c \in 1..2 : b[c] < a[c]}}

\* the closed segment a-b meets the open rectangle ]min, max[
LineMeetsOpenRect(a, b, min, max) ==
    /\ \A c \in 1..2 : (a[c] = b[c]) => (min[c] < a[c] /\ a[c] < max[c])
    /\ \A l \in LowerBounds(a, b, min, max) : l[1] < l[2]
    /\ \A u \in UpperBounds(a, b, min, max) : u[1] > 0
    /\ \A l \in LowerBounds(a, b, min, max) :
         \A u \in UpperBounds(a, b, min, max) : l[1] * u[2] < u[1] * l[2]

\* IntersectionMatrix::is_disjoint
RelateIsDisjoint(hole, min, max) ==
    /\ \A i \in 1..Len(hole) :
            ~LineIntersectsRect(HoleEdgeFrom(hole, i), HoleEdgeTo(hole, i), min, max)
    /\ ~InHole(hole, min, 1)

\* IntersectionMatrix::is_contains: the hole contains the rectangle
RelateIsContains(hole, min, max) ==
    /\ \A i \in 1..Len(hole) :
            ~LineMeetsOpenRect(HoleEdgeFrom(hole, i), HoleEdgeTo(hole, i), min, max)
    /\ InHole(hole, <<min[1] + max[1], min[2] + max[2]>>, 2)

-----------------------------------------------------------------------------
(* geo::algorithm::line_intersection::line_intersection(p, q)              *)
(* The intersection point is recorded only for an improper single point,   *)
(* where it is an end point of one of the lines; a proper crossing point   *)
(* is never compared by the callers, its pt field is filled with p1.       *)

NoIntersection == [kind |-> "None", pt |-> <<0, 0>>, is_proper |-> FALSE]
SinglePoint(pt, is_proper) == [kind |-> "SinglePoint", pt |-> pt, is_proper |-> is_proper]
Collinear == [kind |-> "Collinear", pt |-> <<0, 0>>, is_proper |-> FALSE]

\* the match on (p_bounds.intersects(q.start), p_bounds.intersects(q.end),
\*               q_bounds.intersects(p.start), q_bounds.intersects(p.end))
CollinearMatch(p1, p2, q1, q2, q1inP, q2inP, p1inQ, p2inQ) ==
        IF q1inP /\ q2inP THEN Collinear
        ELSE IF p1inQ /\ p2inQ THEN Collinear
        ELSE IF q1inP /\ p1inQ THEN (IF q1 = p1 THEN SinglePoint(q1, FALSE) ELSE Collinear)
        ELSE IF q1inP /\ p2inQ THEN (IF q1 = p2 THEN SinglePoint(q1, FALSE) ELSE Collinear)
        ELSE IF q2inP /\ p1inQ THEN (IF q2 = p1 THEN SinglePoint(q2, FALSE) ELSE Collinear)
        ELSE IF q2inP /\ p2inQ THEN (IF q2 = p2 THEN SinglePoint(q2, FALSE) ELSE Collinear)
        ELSE NoIntersection

CollinearIntersection(p1, p2, q1, q2) ==
    CollinearMatch(p1, p2, q1, q2,
                   InBounds(q1, p1, p2), InBounds(q2, p1, p2),
                   InBounds(p1, q1, q2), InBounds(p2, q1, q2))

\* line_intersection once the four orientations are known
OrientationMatch(p1, p2, q1, q2, p_q1, p_q2, q_p1, q_p2) ==
             IF p_q1 * p_q2 > 0 THEN NoIntersection
             ELSE IF q_p1 * q_p2 > 0 THEN NoIntersection
             ELSE IF p_q1 = 0 /\ p_q2 = 0 /\ q_p1 = 0 /\ q_p2 = 0
                  THEN CollinearIntersection(p1, p2, q1, q2)
             ELSE IF p_q1 = 0 \/ p_q2 = 0 \/ q_p1 = 0 \/ q_p2 = 0
                  THEN SinglePoint(
                         IF p1 = q1 \/ p1 = q2 THEN p1
                         ELSE IF p2 = q1 \/ p2 = q2 THEN p2
                         ELSE IF p_q1 = 0 THEN q1
                         ELSE IF p_q2 = 0 THEN q2
                         ELSE IF q_p1 = 0 THEN p1
                         ELSE p2,
                         FALSE)
             ELSE SinglePoint(p1, TRUE)

LineIntersection(p1, p2, q1, q2) ==
    IF ~BoundsIntersect(p1, p2, q1, q2) THEN NoIntersection
    ELSE OrientationMatch(p1, p2, q1, q2,
                          Orient(p1, p2, q1), Orient(p1, p2, q2),
                          Orient(q1, q2, p1), Orient(q1, q2, p2))

IsNone(r) == r.kind = "None"
IsImproperPoint(r) == r.kind = "SinglePoint" /\ ~r.is_proper

-----------------------------------------------------------------------------
(* GeoHoleQuadTree *)

NoNode == [kind |-> "None"]
Node(min, max, kind, conditions, children) ==
    [min |-> min, max |-> max, kind |-> kind,
     conditions |-> conditions, children |-> children]

\* the four sides of a node rectangle, each as <<start, end>>
NodeEdgeUpper(min, max) == <<min, <<max[1], min[2]>>>>
NodeEdgeRight(min, max) == <<<<max[1], min[2]>>, max>>
NodeEdgeBottom(min, max) == <<max, <<min[1], max[2]>>>>
NodeEdgeLeft(min, max) == <<<<min[1], max[2]>>, min>>

\* (line_intersection(l, upper), .. right, .. bottom, .. left)
NodeIntersects(a, b, min, max) ==
    <<LineIntersection(a, b, NodeEdgeUpper(min, max)[1], NodeEdgeUpper(min, max)[2]),
      LineIntersection(a, b, NodeEdgeRight(min, max)[1], NodeEdgeRight(min, max)[2]),
      LineIntersection(a, b, NodeEdgeBottom(min, max)[1], NodeEdgeBottom(min, max)[2]),
      LineIntersection(a, b, NodeEdgeLeft(min, max)[1], NodeEdgeLeft(min, max)[2])>>

\* the four "touches on corner" arms of the match in quad_tree_build:
\* <<corner>> when an arm matches, <<>> for the `_other` arm
CornerTouchMatch(upper, right, bottom, left, min, max) ==
        IF /\ IsImproperPoint(upper) /\ IsImproperPoint(right)
           /\ IsNone(bottom) /\ IsNone(left)
           /\ upper.pt = NodeEdgeUpper(min, max)[2]
           /\ right.pt = NodeEdgeRight(min, max)[1]
        THEN <<upper.pt>>
        ELSE IF /\ IsNone(upper) /\ IsImproperPoint(right)
                /\ IsImproperPoint(bottom) /\ IsNone(left)
                /\ right.pt = NodeEdgeRight(min, max)[2]
                /\ bottom.pt = NodeEdgeBottom(min, max)[1]
        THEN <<right.pt>>
        ELSE IF /\ IsNone(upper) /\ IsNone(right)
                /\ IsImproperPoint(bottom) /\ IsImproperPoint(left)
                /\ bottom.pt = NodeEdgeBottom(min, max)[2]
                /\ left.pt = NodeEdgeLeft(min, max)[1]
        THEN <<bottom.pt>>
        ELSE IF /\ IsImproperPoint(upper) /\ IsNone(right)
                /\ IsNone(bottom) /\ IsImproperPoint(left)
                /\ left.pt = NodeEdgeLeft(min, max)[2]
                /\ upper.pt = NodeEdgeUpper(min, max)[1]
        THEN <<left.pt>>
        ELSE <<>>

IntersectsCornerTouch(x, min, max) == CornerTouchMatch(x[1], x[2], x[3], x[4], min, max)

HoleEdgeCornerTouch(a, b, min, max) ==
    IntersectsCornerTouch(NodeIntersects(a, b, min, max), min, max)

\* the loop over the hole edges in a unit cell, from edge i on:
\* [force_uncertain, conditions] as the loop leaves them
RECURSIVE CellScanSkipsUnsupported(_, _, _, _, _)
\* a faulty variant of CellScan: a combination that is not a corner touch is
\* passed over
CellScanSkipsUnsupported(hole, min, max, i, conditions) ==
    IF i > Len(hole) THEN [force_uncertain |-> FALSE, conditions |-> conditions]
    ELSE CellScanSkipsUnsupported(
             hole, min, max, i + 1,
             IF LineIntersectsRect(HoleEdgeFrom(hole, i), HoleEdgeTo(hole, i), min, max)
             THEN conditions \o HoleEdgeCornerTouch(HoleEdgeFrom(hole, i),
                                                    HoleEdgeTo(hole, i), min, max)
             ELSE conditions)

RECURSIVE CellScan(_, _, _, _, _)
CellScan(hole, min, max, i, conditions) ==
    IF i > Len(hole) THEN [force_uncertain |-> FALSE, conditions |-> conditions]
    ELSE LET a == HoleEdgeFrom(hole, i)
             b == HoleEdgeTo(hole, i)
         IN  IF ~LineIntersectsRect(a, b, min, max)
             THEN CellScan(hole, min, max, i + 1, conditions)
             ELSE IF HoleEdgeCornerTouch(a, b, min, max) = <<>>
                  THEN [force_uncertain |-> TRUE, conditions |-> conditions]
                  ELSE CellScan(hole, min, max, i + 1,
                                conditions \o HoleEdgeCornerTouch(a, b, min, max))

\* the children of a Branch: the non-empty results, in the order built
Present(node) == IF node.kind = "None" THEN <<>> ELSE <<node>>

\* the node of a unit cell once the loop over the hole edges is done
UnitCellNode(min, max, scan) ==
    IF scan.force_uncertain
    THEN Node(min, max, "Uncertain", <<>>, <<>>)
    ELSE IF scan.conditions = <<>>
         THEN Node(min, max, "AssertFailed", <<>>, <<>>)
         ELSE Node(min, max, "ConditionsSet", scan.conditions, <<>>)

RECURSIVE QuadTreeBuildThinLeaves(_, _, _)
\* a faulty variant of QuadTreeBuild: a rectangle is taken for a unit cell
\* as soon as one of its sides has length 1
QuadTreeBuildThinLeaves(hole, min, max) ==
    IF min[1] >= max[1] \/ min[2] >= max[2] THEN NoNode
    ELSE IF RelateIsDisjoint(hole, min, max)
         THEN Node(min, max, "Outside", <<>>, <<>>)
    ELSE IF RelateIsContains(hole, min, max)
         THEN Node(min, max, "Inside", <<>>, <<>>)
    ELSE IF min[1] + 1 >= max[1] \/ min[2] + 1 >= max[2]
         THEN UnitCellNode(min, max, CellScan(hole, min, max, 1, <<>>))
    ELSE LET center == <<min[1] + ((max[1] - min[1]) \div 2),
                         min[2] + ((max[2] - min[2]) \div 2)>>
             children ==
                 Present(QuadTreeBuildThinLeaves(hole, min, center))
                 \o Present(QuadTreeBuildThinLeaves(hole, <<center[1], min[2]>>,
                                                    <<max[1], center[2]>>))
                 \o Present(QuadTreeBuildThinLeaves(hole, <<min[1], center[2]>>,
                                                    <<center[1], max[2]>>))
                 \o Present(QuadTreeBuildThinLeaves(hole, center, max))
         IN  IF children = <<>> THEN NoNode
             ELSE Node(min, max, "Branch", <<>>, children)

RECURSIVE QuadTreeBuild(_, _, _)
QuadTreeBuild(hole, min, max) ==
    IF min[1] >= max[1] \/ min[2] >= max[2] THEN NoNode
    ELSE IF RelateIsDisjoint(hole, min, max)
         THEN Node(min, max, "Outside", <<>>, <<>>)
    ELSE IF RelateIsContains(hole, min, max)
         THEN Node(min, max, "Inside", <<>>, <<>>)
    ELSE IF min[1] + 1 >= max[1] /\ min[2] + 1 >= max[2]
         THEN UnitCellNode(min, max, CellScan(hole, min, max, 1, <<>>))
    ELSE LET center == <<min[1] + ((max[1] - min[1]) \div 2),
                         min[2] + ((max[2] - min[2]) \div 2)>>
             children ==
                 Present(QuadTreeBuild(hole, min, center))
                 \o Present(QuadTreeBuild(hole, <<center[1], min[2]>>, <<max[1], center[2]>>))
                 \o Present(QuadTreeBuild(hole, <<min[1], center[2]>>, <<center[1], max[2]>>))
                 \o Present(QuadTreeBuild(hole, center, max))
         IN  IF children = <<>> THEN NoNode
             ELSE Node(min, max, "Branch", <<>>, children)

FieldMin(points) ==
    <<SetMin({p[1] : p \in points}), SetMin({p[2] : p \in points})>>
FieldMax(points) ==
    <<SetMax({p[1] : p \in points}), SetMax({p[2] : p \in points})>>

\* GeoHoleQuadTree::new: the root, or the CreateError
QuadTreeNew(pb) ==
    IF pb.hole = <<>> THEN [kind |-> "NoPointsInHole"]
    ELSE IF pb.figure.vertices = <<>> THEN [kind |-> "NoPointsInFigure"]
    ELSE LET all == Range(pb.hole) \cup Range(pb.figure.vertices)
             field_min == FieldMin(all)
             field_max == FieldMax(all)
             root == QuadTreeBuild(pb.hole,
                                   <<field_min[1] - 2, field_min[2] - 2>>,
                                   <<field_max[1] + 3, field_max[2] + 3>>)
         IN  IF root.kind = "None" THEN [kind |-> "FieldIsTooSmall"] ELSE root

\* the match on `intersects` for one Condition::EdgeCornerTouch { corner }
CornerMatch(corner, upper, right, bottom, left, min, max) ==
        \/ /\ IsImproperPoint(upper) /\ IsImproperPoint(right)
           /\ IsNone(bottom) /\ IsNone(left)
           /\ upper.pt = corner
           /\ upper.pt = NodeEdgeUpper(min, max)[2]
           /\ right.pt = NodeEdgeRight(min, max)[1]
        \/ /\ IsNone(upper) /\ IsImproperPoint(right)
           /\ IsImproperPoint(bottom) /\ IsNone(left)
           /\ right.pt = corner
           /\ right.pt = NodeEdgeRight(min, max)[2]
           /\ bottom.pt = NodeEdgeBottom(min, max)[1]
        \/ /\ IsNone(upper) /\ IsNone(right)
           /\ IsImproperPoint(bottom) /\ IsImproperPoint(left)
           /\ bottom.pt = corner
           /\ bottom.pt = NodeEdgeBottom(min, max)[2]
           /\ left.pt = NodeEdgeLeft(min, max)[1]
        \/ /\ IsImproperPoint(upper) /\ IsNone(right)
           /\ IsNone(bottom) /\ IsImproperPoint(left)
           /\ left.pt = corner
           /\ left.pt = NodeEdgeLeft(min, max)[2]
           /\ upper.pt = NodeEdgeUpper(min, max)[1]

\* a faulty variant of ConditionMatches: a touch at any corner of the cell
\* matches, recorded or not
ConditionMatchesAnyCorner(corner, x, min, max) ==
    \E c \in {min, max, <<min[1], max[2]>>, <<max[1], min[2]>>} :
        CornerMatch(c, x[1], x[2], x[3], x[4], min, max)

ConditionMatches(corner, x, min, max) ==
    CornerMatch(corner, x[1], x[2], x[3], x[4], min, max)

RECURSIVE QuadTreeEdgeNodeIntersection(_, _, _)
RECURSIVE BranchScan(_, _, _, _, _)
RECURSIVE BranchScanFirstHit(_, _, _, _, _)

\* a faulty variant of BranchScan: the first child the edge meets decides
BranchScanFirstHit(children, i, a, b, uncertain_hit) ==
    IF i > Len(children)
    THEN (IF uncertain_hit THEN "Uncertain" ELSE "Inside")
    ELSE LET r == QuadTreeEdgeNodeIntersection(children[i], a, b)
         IN  IF r = "DoesNot"
             THEN BranchScanFirstHit(children, i + 1, a, b, uncertain_hit)
             ELSE r

\* the loop over the children of a Branch, from child i on
BranchScan(children, i, a, b, uncertain_hit) ==
    IF i > Len(children)
    THEN (IF uncertain_hit THEN "Uncertain" ELSE "Inside")
    ELSE LET r == QuadTreeEdgeNodeIntersection(children[i], a, b)
         IN  IF r = "Outside" THEN "Outside"
             ELSE BranchScan(children, i + 1, a, b, uncertain_hit \/ r = "Uncertain")

QuadTreeEdgeNodeIntersection(node, a, b) ==
    IF ~LineIntersectsRect(a, b, node.min, node.max) THEN "DoesNot"
    ELSE IF node.kind = "Inside" THEN "Inside"
    ELSE IF node.kind = "Outside" THEN "Outside"
    ELSE IF node.kind = "Uncertain" THEN "Uncertain"
    ELSE IF node.kind = "Branch" THEN BranchScan(node.children, 1, a, b, FALSE)
    ELSE IF \E k \in 1..Len(node.conditions) :
                ConditionMatches(node.conditions[k],
                                 NodeIntersects(a, b, node.min, node.max),
                                 node.min, node.max)
         THEN "Inside"
         ELSE "Outside"

\* a faulty variant of RootResult: an Uncertain edge is invalid without a
\* look at the polygon
RootResultUncertainInvalid(r, hole, edge_from, edge_to) ==
    IF r = "Inside" THEN FALSE ELSE TRUE

\* a faulty variant of RootResult: an edge that misses the root is valid
RootResultDoesNotValid(r, hole, edge_from, edge_to) ==
    IF r = "Outside" THEN TRUE
    ELSE IF r = "Inside" THEN FALSE
    ELSE IF r = "Uncertain" THEN PolygonIsEdgeInvalid(hole, edge_from, edge_to)
    ELSE FALSE

\* InvalidEdge for GeoHoleQuadTree
RootResult(r, hole, edge_from, edge_to) ==
    IF r = "Outside" THEN TRUE
    ELSE IF r = "Inside" THEN FALSE
    ELSE IF r = "Uncertain" THEN PolygonIsEdgeInvalid(hole, edge_from, edge_to)
    ELSE TRUE

QuadTreeIsEdgeInvalid(root, hole, edge_from, edge_to) ==
    RootResult(QuadTreeEdgeNodeIntersection(root, edge_from, edge_to),
               hole, edge_from, edge_to)

\* the HITS_* statics before the first query
NoHits ==
    [total |-> 0, slow |-> 0, node_inside |-> 0, node_outside |-> 0,
     node_uncertain |-> 0, node_cond_corner_touch |-> 0]

\* AtomicUsize::fetch_add(1, Relaxed) on one of the counters
FetchAdd(h, counter) == [h EXCEPT ![counter] = @ + 1]

\* the fetch_add of two stretches of code, taken together
AddHits(g, h) == [counter \in DOMAIN g |-> g[counter] + h[counter]]

RECURSIVE NodeHits(_, _, _)
RECURSIVE BranchHits(_, _, _, _)

\* what the loop over the children of a Branch adds to the counters, from
\* child i on: the loop ends at the first child that answers Outside
BranchHits(children, i, a, b) ==
    IF i > Len(children) THEN NoHits
    ELSE IF QuadTreeEdgeNodeIntersection(children[i], a, b) = "Outside"
         THEN NodeHits(children[i], a, b)
         ELSE AddHits(NodeHits(children[i], a, b), BranchHits(children, i + 1, a, b))

\* what quad_tree_edge_node_intersection(node, edge) adds to the counters
NodeHits(node, a, b) ==
    IF ~LineIntersectsRect(a, b, node.min, node.max) THEN NoHits
    ELSE IF node.kind = "Inside" THEN FetchAdd(NoHits, "node_inside")
    ELSE IF node.kind = "Outside" THEN FetchAdd(NoHits, "node_outside")
    ELSE IF node.kind = "Uncertain" THEN FetchAdd(NoHits, "node_uncertain")
    ELSE IF node.kind = "Branch" THEN BranchHits(node.children, 1, a, b)
    ELSE IF QuadTreeEdgeNodeIntersection(node, a, b) = "Inside"
         THEN FetchAdd(NoHits, "node_cond_corner_touch")
         ELSE NoHits

\* the slow path of is_edge_invalid counts itself
SlowHits(h, r) == IF r = "Uncertain" THEN FetchAdd(h, "slow") ELSE h

\* the counters after one whole call of is_edge_invalid
CallHits(root, a, b, h) ==
    FetchAdd(SlowHits(AddHits(h, NodeHits(root, a, b)),
                      QuadTreeEdgeNodeIntersection(root, a, b)),
             "total")

-----------------------------------------------------------------------------
(* f64: the IEEE-754 binary64 values of the stretch check.  A value is     *)
(* zero or e and m with m a sequence of MantissaBits bits, m[1] = 1, worth *)
(* the sum of m[i] * 2^(e - i + 1).  Every operation rounds to nearest,    *)
(* ties to even, as the hardware does.  The operands of the model are      *)
(* non-negative and finite (no figure edge has length zero).               *)

MantissaBits == 53
\* the integer operands of a division stay below 2^OperandBits, and the
\* quotient is developed ChunkBits binary digits at a time
OperandBits == 20
ChunkBits == 10

FZero == [zero |-> TRUE, e |-> 0, m |-> <<>>]
FVal(e, m) == [zero |-> FALSE, e |-> e, m |-> m]

Zeros(n) == [i \in 1..n |-> 0]

\* index of the first / last bit equal to v, 0 when there is none
FirstIndex(bits, v) ==
    IF \E i \in 1..Len(bits) : bits[i] = v
    THEN SetMin({i \in 1..Len(bits) : bits[i] = v}) ELSE 0
LastIndex(bits, v) ==
    IF \E i \in 1..Len(bits) : bits[i] = v
    THEN SetMax({i \in 1..Len(bits) : bits[i] = v}) ELSE 0

\* bits + 1 where k is the last 0 of bits; all ones carry into the exponent
IncrementAt(e, bits, k) ==
    IF k = 0 THEN FVal(e + 1, <<1>> \o Zeros(Len(bits) - 1))
    ELSE FVal(e, [i \in 1..Len(bits) |-> IF i < k THEN bits[i] ELSE IF i = k THEN 1 ELSE 0])

\* round the bits (bits[1] = 1, worth 2^e, at least MantissaBits + 1 of them)
\* to MantissaBits; sticky tells that something non-zero lies beyond them
RoundNearestEven(e, bits, sticky) ==
    IF /\ bits[MantissaBits + 1] = 1
       /\ \/ sticky
          \/ bits[MantissaBits] = 1
          \/ \E i \in (MantissaBits + 2)..Len(bits) : bits[i] = 1
    THEN IncrementAt(e, SubSeq(bits, 1, MantissaBits),
                     LastIndex(SubSeq(bits, 1, MantissaBits), 0))
    ELSE FVal(e, SubSeq(bits, 1, MantissaBits))

\* the value of bits whose first non-zero bit is at index first
NormalizeFrom(e0, bits, sticky, first) ==
    IF first = 0 THEN FZero
    ELSE RoundNearestEven(e0 - (first - 1),
                          SubSeq(bits, first, Len(bits)) \o Zeros(MantissaBits + 1),
                          sticky)

\* the f64 nearest to the number whose binary digits are bits, bits[1] worth 2^e0
FromBits(e0, bits, sticky) == NormalizeFrom(e0, bits, sticky, FirstIndex(bits, 1))

\* the n binary digits of q < 2^n, most significant first
Digits(q, n) == [j \in 1..n |-> (q \div (2 ^ (n - j))) % 2]

\* binary digits of a natural number below 2^(OperandBits + ChunkBits)
Bin(n) == Digits(n, SetMin({l \in 0..(OperandBits + ChunkBits) : n < 2 ^ l}))

\* n chunks of digits of r / b after the binary point (r < b), and what is left
RECURSIVE FracBits(_, _, _, _)
FracBits(r, b, n, acc) ==
    IF n = 0 THEN [bits |-> acc, rem |-> r]
    ELSE FracBits((r * (2 ^ ChunkBits)) % b, b, n - 1,
                  acc \o Digits((r * (2 ^ ChunkBits)) \div b, ChunkBits))

DivFrom(int, frac) ==
    FromBits(Len(int) - 1, int \o frac.bits, frac.rem # 0)

\* (a as f64) / (b as f64) for integers 0 <= a, 0 < b
FDivInt(a, b) ==
    DivFrom(Bin(a \div b),
            FracBits(a % b, b, ((MantissaBits + OperandBits) \div ChunkBits) + 1, <<>>))

\* x - 1 for x >= 1: borrow from the last 1 at or above the units digit
BorrowAt(x, k) ==
    FromBits(x.e,
             [i \in 1..MantissaBits |->
                 IF i < k THEN x.m[i]
                 ELSE IF i = k THEN 0
                 ELSE IF i <= x.e + 1 THEN 1
                 ELSE x.m[i]],
             FALSE)

\* 1 - 0.f for the digits f after the binary point, k the last 1 of f
ComplementAt(f, k) ==
    FromBits(-1,
             [i \in 1..Len(f) |->
                 IF i < k THEN 1 - f[i] ELSE IF i = k THEN 1 ELSE 0],
             FALSE)

FOne == FVal(0, <<1>> \o Zeros(MantissaBits - 1))

\* (x - 1_f64).abs()
FSubOneAbs(x) ==
    IF x.zero THEN FOne
    ELSE IF x.e >= 0
         THEN BorrowAt(x, LastIndex(SubSeq(x.m, 1, x.e + 1), 1))
         ELSE ComplementAt(Zeros(-x.e - 1) \o x.m,
                           LastIndex(Zeros(-x.e - 1) \o x.m, 1))

\* the carry into digit i of a + b: some lower digit generates one and every
\* digit between passes it on
CarryInto(a, b, i) ==
    \E j \in (i + 1)..Len(a) :
        /\ a[j] + b[j] = 2
        /\ \A k \in (i + 1)..(j - 1) : a[k] + b[k] = 1

\* the digits of a + b, one more than a and b have
AddBits(a, b) ==
    [i \in 1..(Len(a) + 1) |->
        IF i = 1 THEN (IF CarryInto(a, b, 0) THEN 1 ELSE 0)
        ELSE (a[i - 1] + b[i - 1] + (IF CarryInto(a, b, i - 1) THEN 1 ELSE 0)) % 2]

\* x + y for x.e >= y.e
AddAligned(x, y) ==
    FromBits(x.e + 1,
             AddBits(x.m \o Zeros(x.e - y.e), Zeros(x.e - y.e) \o y.m),
             FALSE)

FAdd(x, y) ==
    IF x.zero THEN y
    ELSE IF y.zero THEN x
    ELSE IF x.e >= y.e THEN AddAligned(x, y) ELSE AddAligned(y, x)

\* a faulty variant of FGt: x >= y
FGe(x, y) ==
    IF x.zero THEN y.zero
    ELSE IF y.zero THEN TRUE
    ELSE \/ x.e > y.e
         \/ /\ x.e = y.e
            /\ \A i \in 1..MantissaBits :
                  (x.m[i] < y.m[i]) => \E j \in 1..(i - 1) : x.m[j] > y.m[j]

\* x > y
FGt(x, y) ==
    IF x.zero THEN FALSE
    ELSE IF y.zero THEN TRUE
    ELSE \/ x.e > y.e
         \/ /\ x.e = y.e
            /\ \E i \in 1..MantissaBits :
                  /\ x.m[i] > y.m[i]
                  /\ \A j \in 1..(i - 1) : x.m[j] = y.m[j]

-----------------------------------------------------------------------------
(* GeoHoleBloom *)

\* derived PartialOrd of problem::Point: lexicographic on (x, y)
PointLess(p, q) == p[1] < q[1] \/ (p[1] = q[1] /\ p[2] < q[2])

\* a faulty variant of BloomKey: the end points are kept in the order given
BloomKeyAsGiven(edge_a, edge_b) == [edge_min |-> edge_a, edge_max |-> edge_b]

\* BloomKey::new
BloomKey(edge_a, edge_b) ==
    IF PointLess(edge_a, edge_b)
    THEN [edge_min |-> edge_a, edge_max |-> edge_b]
    ELSE [edge_min |-> edge_b, edge_max |-> edge_a]

\* SeaHasher fed the seed and then the four coordinates of the key.  The
\* SeaHash mixing itself is outside the repository; it is represented by a
\* seeded polynomial hash: deterministic in (seed, key) and spreading keys.
HashModulus == 65521
HashBase == 31
Mix(h, word) == (h * HashBase + (word % HashModulus)) % HashModulus
SeaHash(seed, key) ==
    Mix(Mix(Mix(Mix(Mix(1, seed), key.edge_min[1]), key.edge_min[2]),
            key.edge_max[1]), key.edge_max[2])

BitIndex(seed, key, bits_count) == SeaHash(seed, key) % bits_count

\* ((bits_count as f64) / (sq_field_area as f64) * ln 2).ceil(): bits_count
\* is sq_field_area / 10, so the product lies in ]0, 0.0694[ unless
\* bits_count is 0
HashFnsCount(bits_count, sq_field_area) == IF bits_count = 0 THEN 0 ELSE 1

BloomFieldWidth(hole) == FieldMax(Range(hole))[1] - FieldMin(Range(hole))[1] + 1
BloomFieldHeight(hole) == FieldMax(Range(hole))[2] - FieldMin(Range(hole))[2] + 1

\* the point of a position index inside the parallel iterator
PositionPoint(position, field_width) ==
    <<position % field_width, position \div field_width>>

\* the bit indices that the workers of GeoHoleBloom::new set, as a set
BloomBits(hole, seeds, bits_count) ==
    LET field_width == BloomFieldWidth(hole)
        field_area == field_width * BloomFieldHeight(hole)
        invalid == {sq_position \in 0..(field_area * field_area - 1) :
                       PolygonIsEdgeInvalid(hole,
                           PositionPoint(sq_position \div field_area, field_width),
                           PositionPoint(sq_position % field_area, field_width))}
    IN  {BitIndex(seeds[k],
                  BloomKey(PositionPoint(sq_position \div field_area, field_width),
                           PositionPoint(sq_position % field_area, field_width)),
                  bits_count) : k \in 1..Len(seeds), sq_position \in invalid}

\* GeoHoleBloom::new, with the seeds the random generator hands out
BloomNew(pb, seeds) ==
    IF pb.hole = <<>> THEN [kind |-> "NoPointsInHole"]
    ELSE LET field_area == BloomFieldWidth(pb.hole) * BloomFieldHeight(pb.hole)
             sq_field_area == field_area * field_area
             bits_count == sq_field_area \div 10
             hash_fns_seeds == SubSeq(seeds, 1, HashFnsCount(bits_count, sq_field_area))
         IN  [kind |-> "GeoHoleBloom",
              bits |-> BloomBits(pb.hole, hash_fns_seeds, bits_count),
              bits_len |-> bits_count,
              field_min |-> FieldMin(Range(pb.hole)),
              field_max |-> FieldMax(Range(pb.hole)),
              hash_fns_seeds |-> hash_fns_seeds]

OutOfField(bl, p) ==
    \/ p[1] < bl.field_min[1] \/ p[1] > bl.field_max[1]
    \/ p[2] < bl.field_min[2] \/ p[2] > bl.field_max[2]

\* InvalidEdge for GeoHoleBloom
BloomIsEdgeInvalid(bl, hole, edge_from, edge_to) ==
    IF OutOfField(bl, edge_from) THEN TRUE
    ELSE IF OutOfField(bl, edge_to) THEN TRUE
    ELSE IF \E k \in 1..Len(bl.hash_fns_seeds) :
                BitIndex(bl.hash_fns_seeds[k], BloomKey(edge_from, edge_to), bl.bits_len)
                    \notin bl.bits
         THEN FALSE
         ELSE PolygonIsEdgeInvalid(hole, edge_from, edge_to)

-----------------------------------------------------------------------------
(* Problem: the scoring pipeline.  Figure edges hold vertex indices from 1 *)
(* (the code counts from 0); geo_hole is the exact polygon of the hole.    *)

Million == 1000000

Ok(value) == [kind |-> "Ok", value |-> value]
VerticeCountMismatch == [kind |-> "VerticeCountMismatch"]
BrokenEdgesFound(ratio_sum, broken_edges_count) ==
    [kind |-> "BrokenEdgesFound", ratio_sum |-> ratio_sum,
     broken_edges_count |-> broken_edges_count]
EdgesNotFitHole(count) == [kind |-> "EdgesNotFitHole", count |-> count]
\* unimplemented!("BREAK_A_LEG is not supported yet")
Unimplemented == [kind |-> "Panic"]

distance(p, q) == (p[1] - q[1]) * (p[1] - q[1]) + (p[2] - q[2]) * (p[2] - q[2])

\* a faulty variant of score_vertices_check_count: a pose with too many
\* vertices passes
CheckCountAtLeast(pb, pose_vertices, b) ==
    IF b = "BreakALeg" THEN Unimplemented
    ELSE IF Len(pb.figure.vertices) > Len(pose_vertices) THEN VerticeCountMismatch
    ELSE Ok(<<>>)

\* a faulty variant of score_vertices_check_count: the lengths are compared
\* before the bonus is looked at
CheckCountLengthFirst(pb, pose_vertices, b) ==
    IF Len(pb.figure.vertices) # Len(pose_vertices) THEN VerticeCountMismatch
    ELSE IF b = "BreakALeg" THEN Unimplemented
    ELSE Ok(<<>>)

score_vertices_check_count(pb, pose_vertices, b) ==
    IF b = "BreakALeg" THEN Unimplemented
    ELSE IF Len(pb.figure.vertices) # Len(pose_vertices) THEN VerticeCountMismatch
    ELSE Ok(<<>>)

\* ((d_after as f64) / (d_before as f64) - 1_f64).abs() of one figure edge
EdgeRatio(pb, pose_vertices, edge) ==
    FSubOneAbs(FDivInt(distance(pose_vertices[edge[1]], pose_vertices[edge[2]]),
                       distance(pb.figure.vertices[edge[1]], pb.figure.vertices[edge[2]])))

\* the Globalist loop from edge i on
RECURSIVE GlobalistLoop(_, _, _, _)
GlobalistLoop(pb, pose_vertices, i, ratio_sum) ==
    IF i > Len(pb.figure.edges) THEN ratio_sum
    ELSE GlobalistLoop(pb, pose_vertices, i + 1,
                       FAdd(ratio_sum, EdgeRatio(pb, pose_vertices, pb.figure.edges[i])))

\* the product of the two f64 is exact, both being integers below 2^53
GlobalistCheck(pb, ratio_sum) ==
    IF FGt(ratio_sum, FDivInt(Len(pb.figure.edges) * pb.epsilon, Million))
    THEN BrokenEdgesFound(ratio_sum, 0)
    ELSE Ok(ratio_sum)

\* the default loop from edge i on
RECURSIVE StretchLoop(_, _, _, _, _, _)
RECURSIVE StretchStep(_, _, _, _, _, _, _)
StretchStep(pb, pose_vertices, i, allow_broken, ratio_sum, broken_edges_count, ratio) ==
    IF FGt(ratio, FDivInt(pb.epsilon, Million))
    THEN IF allow_broken > 0
         THEN StretchLoop(pb, pose_vertices, i + 1, allow_broken - 1,
                          FAdd(ratio_sum, ratio), broken_edges_count)
         ELSE StretchLoop(pb, pose_vertices, i + 1, allow_broken,
                          FAdd(ratio_sum, ratio), broken_edges_count + 1)
    ELSE StretchLoop(pb, pose_vertices, i + 1, allow_broken,
                     FAdd(ratio_sum, ratio), broken_edges_count)

StretchLoop(pb, pose_vertices, i, allow_broken, ratio_sum, broken_edges_count) ==
    IF i > Len(pb.figure.edges)
    THEN IF broken_edges_count > 0
         THEN BrokenEdgesFound(ratio_sum, broken_edges_count)
         ELSE Ok(ratio_sum)
    ELSE StretchStep(pb, pose_vertices, i, allow_broken, ratio_sum, broken_edges_count,
                     EdgeRatio(pb, pose_vertices, pb.figure.edges[i]))

score_vertices_check_stretching(pb, pose_vertices, b) ==
    IF b = "Globalist"
    THEN GlobalistCheck(pb, GlobalistLoop(pb, pose_vertices, 1, FZero))
    ELSE IF b = "BreakALeg" THEN Unimplemented
    ELSE StretchLoop(pb, pose_vertices, 1, IF b = "Superflex" THEN 1 ELSE 0, FZero, 0)

\* a faulty variant of OuterVertexOf: the end inside the hole is taken for
\* the outer vertex
OuterVertexSwapped(edge, contains_start, contains_end) ==
    IF ~contains_start /\ contains_end THEN <<edge[2]>>
    ELSE IF contains_start /\ ~contains_end THEN <<edge[1]>>
    ELSE <<>>

\* the Wallhack arm for an invalid edge while outer_vertex is None:
\* <<idx>> when the edge sets outer_vertex, <<>> when it is counted
OuterVertexOf(edge, contains_start, contains_end) ==
    IF ~contains_start /\ contains_end THEN <<edge[1]>>
    ELSE IF contains_start /\ ~contains_end THEN <<edge[2]>>
    ELSE <<>>

\* the loop from edge i on; outer_vertex is <<>> for None, <<idx>> for Some(idx)
RECURSIVE HoleLoop(_, _, _, _, _, _)
RECURSIVE HoleStep(_, _, _, _, _, _, _)
HoleStep(pb, pose_vertices, b, i, edges_out_of_hole_count, outer_vertex, found) ==
    IF outer_vertex = <<>>
    THEN IF found = <<>>
         THEN HoleLoop(pb, pose_vertices, b, i + 1, edges_out_of_hole_count + 1, outer_vertex)
         ELSE HoleLoop(pb, pose_vertices, b, i + 1, edges_out_of_hole_count, found)
    ELSE IF outer_vertex[1] = pb.figure.edges[i][1] \/ outer_vertex[1] = pb.figure.edges[i][2]
         THEN HoleLoop(pb, pose_vertices, b, i + 1, edges_out_of_hole_count, outer_vertex)
         ELSE HoleLoop(pb, pose_vertices, b, i + 1, edges_out_of_hole_count + 1, outer_vertex)

HoleLoop(pb, pose_vertices, b, i, edges_out_of_hole_count, outer_vertex) ==
    IF i > Len(pb.figure.edges)
    THEN IF edges_out_of_hole_count > 0
         THEN EdgesNotFitHole(edges_out_of_hole_count)
         ELSE Ok(<<>>)
    ELSE IF ~PolygonIsEdgeInvalid(pb.hole, pose_vertices[pb.figure.edges[i][1]],
                                  pose_vertices[pb.figure.edges[i][2]])
         THEN HoleLoop(pb, pose_vertices, b, i + 1, edges_out_of_hole_count, outer_vertex)
    ELSE IF b # "Wallhack"
         THEN HoleLoop(pb, pose_vertices, b, i + 1, edges_out_of_hole_count + 1, outer_vertex)
    ELSE HoleStep(pb, pose_vertices, b, i, edges_out_of_hole_count, outer_vertex,
                  OuterVertexOf(pb.figure.edges[i],
                      ~PolygonIsEdgeInvalid(pb.hole, pose_vertices[pb.figure.edges[i][1]],
                                            pose_vertices[pb.figure.edges[i][1]]),
                      ~PolygonIsEdgeInvalid(pb.hole, pose_vertices[pb.figure.edges[i][2]],
                                            pose_vertices[pb.figure.edges[i][2]])))

\* a faulty variant of score_vertices_check_hole: the first figure edge is
\* never handed to the oracle
CheckHoleFromSecondEdge(pb, pose_vertices, b) ==
    HoleLoop(pb, pose_vertices, b, 2, 0, <<>>)

score_vertices_check_hole(pb, pose_vertices, b) ==
    HoleLoop(pb, pose_vertices, b, 1, 0, <<>>)

\* a faulty variant of Dislikes: the sum runs over the pose vertices, each
\* taken to its nearest hole vertex
RECURSIVE DislikesOverPose(_, _, _)
DislikesOverPose(hole, pose_vertices, i) ==
    IF i > Len(pose_vertices) THEN 0
    ELSE SetMin({distance(hole[k], pose_vertices[i]) : k \in 1..Len(hole)})
         + DislikesOverPose(hole, pose_vertices, i + 1)

\* a faulty variant of Dislikes: each hole vertex is taken to its farthest
\* pose vertex
RECURSIVE DislikesFarthest(_, _, _)
DislikesFarthest(hole, pose_vertices, i) ==
    IF i > Len(hole) THEN 0
    ELSE SetMax({distance(hole[i], pose_vertices[k]) : k \in 1..Len(pose_vertices)})
         + DislikesFarthest(hole, pose_vertices, i + 1)

\* sum over the hole vertices of the distance to the nearest pose vertex
RECURSIVE Dislikes(_, _, _)
Dislikes(hole, pose_vertices, i) ==
    IF i > Len(hole) THEN 0
    ELSE SetMin({distance(hole[i], pose_vertices[k]) : k \in 1..Len(pose_vertices)})
         + Dislikes(hole, pose_vertices, i + 1)

\* a faulty variant of FirstError: the stretching is looked at before the hole
FirstErrorStretchFirst(count, hole, stretching, dislikes) ==
    IF count.kind # "Ok" THEN count
    ELSE IF stretching.kind # "Ok" THEN stretching
    ELSE IF hole.kind # "Ok" THEN hole
    ELSE Ok(dislikes)

\* the `?` chain of score_vertices: the first check that fails returns its error
FirstError(count, hole, stretching, dislikes) ==
    IF count.kind # "Ok" THEN count
    ELSE IF hole.kind # "Ok" THEN hole
    ELSE IF stretching.kind # "Ok" THEN stretching
    ELSE Ok(dislikes)

score_vertices(pb, pose_vertices, b) ==
    FirstError(score_vertices_check_count(pb, pose_vertices, b),
               score_vertices_check_hole(pb, pose_vertices, b),
               score_vertices_check_stretching(pb, pose_vertices, b),
               Dislikes(pb.hole, pose_vertices, 1))

-----------------------------------------------------------------------------
(* Problems the oracles are built for.  The first is problem 11 of the    *)
(* autochecks scaled down (hole [[10,0],[10,10],[0,10]]); the others add a *)
(* reflex vertex, edges through lattice points only, edges through cell    *)
(* interiors, and a bounding box that does not start at the origin.        *)

Figure(edges, vertices) == [edges |-> edges, vertices |-> vertices]
Problem(hole, figure, epsilon) == [hole |-> hole, figure |-> figure, epsilon |-> epsilon]

TriangleFigure == Figure(<<<<1, 2>>, <<2, 3>>, <<3, 1>>>>, <<<<0, 0>>, <<3, 0>>, <<3, 3>>>>)

ProblemTriangle == Problem(<<<<3, 0>>, <<3, 3>>, <<0, 3>>>>, TriangleFigure, 0)
ProblemEll ==
    Problem(<<<<0, 0>>, <<3, 0>>, <<3, 1>>, <<1, 1>>, <<1, 3>>, <<0, 3>>>>, TriangleFigure, 0)
ProblemDiamond ==
    Problem(<<<<1, 0>>, <<2, 1>>, <<1, 2>>, <<0, 1>>>>,
            Figure(<<<<1, 2>>>>, <<<<1, 0>>, <<1, 2>>>>), 0)
ProblemSkew ==
    Problem(<<<<0, 0>>, <<3, 1>>, <<1, 3>>>>, Figure(<<<<1, 2>>>>, <<<<1, 1>>, <<2, 2>>>>), 0)
ProblemShifted ==
    Problem(<<<<1, 0>>, <<3, 0>>, <<2, 2>>, <<1, 2>>>>,
            Figure(<<<<1, 2>>>>, <<<<1, 0>>, <<1, 2>>>>), 0)

\* a hole that holds whole unit cells and lattice points in its interior
ProblemSquare ==
    Problem(<<<<0, 0>>, <<3, 0>>, <<3, 3>>, <<0, 3>>>>, TriangleFigure, 0)

\* holes whose points share one coordinate
ProblemFlat ==
    Problem(<<<<1, 0>>, <<1, 1>>, <<1, 2>>>>, Figure(<<<<1, 2>>>>, <<<<1, 0>>, <<1, 2>>>>), 0)
ProblemLevel ==
    Problem(<<<<0, 1>>, <<2, 1>>, <<1, 1>>>>, Figure(<<<<1, 2>>>>, <<<<0, 1>>, <<2, 1>>>>), 0)
FlatProblems == {ProblemFlat, ProblemLevel}

QuadProblems == {ProblemTriangle, ProblemEll, ProblemDiamond, ProblemSkew, ProblemSquare}
BloomProblems == {ProblemTriangle, ProblemShifted}

QueryMargin == 1
SeedCount == 2

Lattice(min, max) == {<<x, y>> : x \in min[1]..max[1], y \in min[2]..max[2]}

\* the field of GeoHoleQuadTree::new (hole and figure vertices) with QueryMargin
\* units around it, and the lattice points on the diagonal at the first and
\* last corner of the root rectangle [field_min - 2, field_max + 3] and just
\* beyond them
QuadQueryPoints(pb) ==
    LET all == Range(pb.hole) \cup Range(pb.figure.vertices)
        lo == FieldMin(all)
        hi == FieldMax(all)
    IN  Lattice(<<lo[1] - QueryMargin, lo[2] - QueryMargin>>,
                <<hi[1] + QueryMargin, hi[2] + QueryMargin>>)
        \cup {<<lo[1] - 3, lo[2] - 3>>, <<lo[1] - 2, lo[2] - 2>>,
              <<hi[1] + 3, hi[2] + 3>>, <<hi[1] + 4, hi[2] + 4>>}

\* the bounding box of the hole and QueryMargin units around it
BloomQueryPoints(pb) ==
    Lattice(<<FieldMin(Range(pb.hole))[1] - QueryMargin,
              FieldMin(Range(pb.hole))[2] - QueryMargin>>,
            <<FieldMax(Range(pb.hole))[1] + QueryMargin,
              FieldMax(Range(pb.hole))[2] + QueryMargin>>)

\* the threads that share one built index
ThreadCount == 2
Threads == 1..ThreadCount

\* the frame of is_edge_invalid in a thread: the edge, the IntersectsNode
\* of the match and the value to return
IdleCall ==
    [pc |-> "idle", from |-> <<0, 0>>, to |-> <<0, 0>>, node |-> "None", is_invalid |-> FALSE]

\* the autocheck loops run 32768 times; the model runs them QueryRuns times
QueryRuns == 1

\* a worker of the parallel fill outside GeoHoleBloom::new
IdleWorker == [pc |-> "idle", next |-> 0, end |-> 0, bit_index |-> 0]

NotBuilt == [kind |-> "NotBuilt"]
NoPoint == <<0, 0>>
NoAnswer == [orig |-> FALSE, test |-> FALSE]
NoResult == [kind |-> "None"]

\* no SimulatedAnnealingSolver constructed, no call on it returned
NoSolver == [kind |-> "None"]
NoReturn == [op |-> "none", kind |-> "None"]

AnnealingIdle ==
    /\ sa = NoSolver
    /\ returned = NoReturn

ScoringIdle ==
    /\ pose = <<>>
    /\ bonus = "None"
    /\ spc = "idle"
    /\ result = NoResult

OracleIdle ==
    /\ opc = "idle"
    /\ qtree = NotBuilt
    /\ bloom = NotBuilt
    /\ qa = NoPoint
    /\ qb = NoPoint
    /\ ans = NoAnswer
    /\ hits = NoHits
    /\ calls = [t \in Threads |-> IdleCall]
    /\ shared_bits = {}
    /\ workers = [t \in Threads |-> IdleWorker]

-----------------------------------------------------------------------------
(* The quad-tree oracle: GeoHoleQuadTree::new, then queries checked        *)
(* against the polygon as in tests::autocheck_on_problem_11.               *)

InitQuad ==
    /\ problem \in QuadProblems
    /\ OracleIdle
    /\ ScoringIdle
    /\ AnnealingIdle

\* What GeoHoleQuadTree::new builds for each problem of the model, as a table:
\* new is a function of the problem, and the table has it computed once.
BuiltRoots == {<<pb, QuadTreeNew(pb)>> : pb \in QuadProblems \cup BloomProblems \cup FlatProblems}
RootOf(pb) == (CHOOSE e \in BuiltRoots : e[1] = pb)[2]

\* NodesIterator { queue: vec![&root] }.count(): the leaves of the tree
RECURSIVE NodesCount(_)
RECURSIVE ChildrenCount(_, _)
ChildrenCount(children, i) ==
    IF i > Len(children) THEN 0
    ELSE NodesCount(children[i]) + ChildrenCount(children, i + 1)
NodesCount(node) ==
    IF node.kind = "Branch" THEN ChildrenCount(node.children, 1) ELSE 1

IsNode(root) == root.kind \in {"Inside", "Outside", "Uncertain", "ConditionsSet", "Branch"}

GeoHoleQuadTreeNew ==
    /\ qtree = NotBuilt
    /\ qtree' = IF IsNode(RootOf(problem))
                THEN [kind |-> "GeoHoleQuadTree", root |-> RootOf(problem),
                      nodes |-> NodesCount(RootOf(problem))]
                ELSE [kind |-> RootOf(problem).kind]
    /\ UNCHANGED <<problem, opc, bloom, qa, qb, ans, pose, bonus, spc, result, hits, calls, shared_bits, workers, sa, returned>>

QuadTreeQuery(pa, pb) ==
    /\ opc = "idle"
    /\ qtree.kind = "GeoHoleQuadTree"
    /\ hits.total < QueryRuns
    /\ qa' = pa
    /\ qb' = pb
    /\ ans' = [orig |-> PolygonIsEdgeInvalid(problem.hole, pa, pb),
               test |-> QuadTreeIsEdgeInvalid(qtree.root, problem.hole, pa, pb)]
    /\ hits' = CallHits(qtree.root, pa, pb, hits)
    /\ opc' = "quad_answered"
    /\ UNCHANGED <<problem, qtree, bloom, pose, bonus, spc, result, calls, shared_bits, workers, sa, returned>>

QueryReturn ==
    /\ opc # "idle"
    /\ opc' = "idle"
    /\ qa' = NoPoint
    /\ qb' = NoPoint
    /\ ans' = NoAnswer
    /\ UNCHANGED <<problem, qtree, bloom, pose, bonus, spc, result, hits, calls, shared_bits, workers, sa, returned>>

NextQuad ==
    \/ GeoHoleQuadTreeNew
    \/ \E pa \in QuadQueryPoints(problem), pb \in QuadQueryPoints(problem) :
          QuadTreeQuery(pa, pb)
    \/ QueryReturn

SpecQuad == InitQuad /\ [][NextQuad]_vars

\* the same harness on problems whose hole has no width or no height
InitFlat ==
    /\ problem \in FlatProblems \cup {ProblemDiamond}
    /\ OracleIdle
    /\ ScoringIdle
    /\ AnnealingIdle

SpecFlat == InitFlat /\ [][NextQuad]_vars

\* The same machine over few query points: the vertices of the hole and of
\* the figure, two points of the middle of the field, and one beyond the
\* root rectangle.
BranchQueryPoints(pb) ==
    Range(pb.hole) \cup Range(pb.figure.vertices)
    \cup {<<1, 1>>, <<2, 2>>,
          <<FieldMin(Range(pb.hole))[1] - 3, FieldMin(Range(pb.hole))[2] - 3>>}

NextBranch ==
    \/ GeoHoleQuadTreeNew
    \/ \E pa \in BranchQueryPoints(problem), pb \in BranchQueryPoints(problem) :
          QuadTreeQuery(pa, pb)
    \/ QueryReturn

SpecBranch == InitQuad /\ [][NextBranch]_vars

-----------------------------------------------------------------------------
(* quad_tree_build on its own: a hole and a rectangle, drawn from the      *)
(* holes of the model and from the rectangles of up to RectSpan units a    *)
(* side around the origin (empty ones included), and the tree it returns.  *)

RectSpan == 4

TreeProblems == QuadProblems \cup BloomProblems \cup FlatProblems

RectOrigins == Lattice(<<-1, -1>>, <<1, 1>>)

QuadTreeBuildCall(min, max) ==
    /\ qtree = NotBuilt
    /\ qtree' = [kind |-> "quad_tree_build", min |-> min, max |-> max,
                 root |-> QuadTreeBuild(problem.hole, min, max)]
    /\ UNCHANGED <<problem, opc, bloom, qa, qb, ans, pose, bonus, spc, result, hits, calls,
                   shared_bits, workers, sa, returned>>

InitTrees ==
    /\ problem \in TreeProblems
    /\ OracleIdle
    /\ ScoringIdle
    /\ AnnealingIdle

NextTrees ==
    \E min \in RectOrigins, width \in 0..RectSpan, height \in 0..RectSpan :
        QuadTreeBuildCall(min, <<min[1] + width, min[2] + height>>)

SpecTrees == InitTrees /\ [][NextTrees]_vars

-----------------------------------------------------------------------------
(* The Bloom oracle: GeoHoleBloom::new with the seeds drawn from the       *)
(* random generator, then queries as in tests::autocheck_on_problem_18.    *)

InitBloom ==
    /\ problem \in BloomProblems
    /\ OracleIdle
    /\ ScoringIdle
    /\ AnnealingIdle

GeoHoleBloomNew(seed) ==
    /\ bloom = NotBuilt
    /\ bloom' = BloomNew(problem, <<seed>>)
    /\ UNCHANGED <<problem, opc, qtree, qa, qb, ans, pose, bonus, spc, result, hits, calls, shared_bits, workers, sa, returned>>

BloomQuery(pa, pb) ==
    /\ opc = "idle"
    /\ bloom.kind = "GeoHoleBloom"
    /\ qa' = pa
    /\ qb' = pb
    /\ ans' = [orig |-> PolygonIsEdgeInvalid(problem.hole, pa, pb),
               test |-> BloomIsEdgeInvalid(bloom, problem.hole, pa, pb)]
    /\ opc' = "bloom_answered"
    /\ UNCHANGED <<problem, qtree, bloom, pose, bonus, spc, result, hits, calls, shared_bits, workers, sa, returned>>

NextBloom ==
    \/ \E seed \in 0..(SeedCount - 1) : GeoHoleBloomNew(seed)
    \/ \E pa \in BloomQueryPoints(problem), pb \in BloomQueryPoints(problem) :
          BloomQuery(pa, pb)
    \/ QueryReturn

SpecBloom == InitBloom /\ [][NextBloom]_vars

-----------------------------------------------------------------------------
(* Both indexes built for one problem and queried side by side, and the    *)
(* Bloom filter built anew, each build drawing its seeds afresh.           *)

OracleProblems == QuadProblems \cup BloomProblems

InitOracles ==
    /\ problem \in OracleProblems
    /\ OracleIdle
    /\ ScoringIdle
    /\ AnnealingIdle

\* What GeoHoleBloom::new builds for each problem and each draw of the seed,
\* as a table that has it computed once.
BuiltBlooms ==
    {<<pb, seed, BloomNew(pb, <<seed>>)>> : pb \in OracleProblems, seed \in 0..(SeedCount - 1)}
BloomOf(pb, seed) == (CHOOSE e \in BuiltBlooms : e[1] = pb /\ e[2] = seed)[3]

\* GeoHoleBloom::new called again on the same problem, while the answer of
\* the first build is at hand
GeoHoleBloomRebuild(seed) ==
    /\ opc = "bloom_answered"
    /\ bloom' = BloomOf(problem, seed)
    /\ UNCHANGED <<problem, opc, qtree, qa, qb, ans, pose, bonus, spc, result, hits, calls, shared_bits, workers, sa, returned>>

\* the queries start once both indexes are built
NextOracles ==
    \/ GeoHoleQuadTreeNew
    \/ \E seed \in 0..(SeedCount - 1) : GeoHoleBloomNew(seed)
    \/ /\ bloom # NotBuilt
       /\ \E pa \in QuadQueryPoints(problem), pb \in QuadQueryPoints(problem) :
             QuadTreeQuery(pa, pb)
    \/ /\ qtree # NotBuilt
       /\ \E pa \in BloomQueryPoints(problem), pb \in BloomQueryPoints(problem) :
             BloomQuery(pa, pb)

SpecOracles == InitOracles /\ [][NextOracles]_vars

NextRebuild ==
    \/ NextOracles
    \/ \E seed \in 0..(SeedCount - 1) : GeoHoleBloomRebuild(seed)

SpecRebuild == InitOracles /\ [][NextRebuild]_vars

-----------------------------------------------------------------------------
(* Threads sharing one GeoHoleQuadTree.  A call of is_edge_invalid reads   *)
(* the tree, and touches shared memory only through the fetch_add on the   *)
(* HITS_* statics, so a thread's call is taken in three steps: the walk    *)
(* down the tree with the counters of the nodes it meets, the match on the *)
(* IntersectsNode with the counter of the slow path, and the total.  The   *)
(* fetch_add of one walk commute with those of another, so a walk is one   *)
(* step.                                                                   *)

\* calls that start while the model runs
MaxCalls == 2

ConcurrentProblems == {ProblemTriangle, ProblemEll}

\* two vertices of the hole, a lattice point and a point beyond the root
SharedQueryPoints(pb) ==
    {pb.hole[1], pb.hole[2], <<2, 2>>,
     <<FieldMin(Range(pb.hole))[1] - 3, FieldMin(Range(pb.hole))[2] - 3>>}

InFlight == Cardinality({t \in Threads : calls[t].pc # "idle"})

\* a faulty variant of Traversed: the IntersectsNode is kept where every call
\* that has not matched yet reads it
TraversedShared(cs, t, pa, pb, r) ==
    [u \in Threads |->
        IF u = t
        THEN [pc |-> "traversed", from |-> pa, to |-> pb, node |-> r, is_invalid |-> FALSE]
        ELSE IF cs[u].pc = "traversed" THEN [cs[u] EXCEPT !.node = r]
        ELSE cs[u]]

\* the frame of thread t once quad_tree_edge_node_intersection has returned
Traversed(cs, t, pa, pb, r) ==
    [cs EXCEPT ![t] =
        [pc |-> "traversed", from |-> pa, to |-> pb, node |-> r, is_invalid |-> FALSE]]

\* is_edge_invalid up to the return of quad_tree_edge_node_intersection
CallTraverse(t, pa, pb) ==
    /\ calls[t].pc = "idle"
    /\ qtree.kind = "GeoHoleQuadTree"
    /\ hits.total + InFlight < MaxCalls
    /\ calls' = Traversed(calls, t, pa, pb, QuadTreeEdgeNodeIntersection(qtree.root, pa, pb))
    /\ hits' = AddHits(hits, NodeHits(qtree.root, pa, pb))
    /\ UNCHANGED <<problem, opc, qtree, bloom, qa, qb, ans, pose, bonus, spc, result, shared_bits, workers, sa, returned>>

\* the match on the IntersectsNode, with the slow path on Uncertain
CallMatch(t) ==
    /\ calls[t].pc = "traversed"
    /\ calls' = [calls EXCEPT ![t].pc = "matched",
                              ![t].is_invalid =
                                  RootResult(calls[t].node, problem.hole,
                                             calls[t].from, calls[t].to)]
    /\ hits' = SlowHits(hits, calls[t].node)
    /\ UNCHANGED <<problem, opc, qtree, bloom, qa, qb, ans, pose, bonus, spc, result, shared_bits, workers, sa, returned>>

\* HITS_TOTAL.fetch_add, after which is_invalid is returned
CallCount(t) ==
    /\ calls[t].pc = "matched"
    /\ calls' = [calls EXCEPT ![t].pc = "returned"]
    /\ hits' = FetchAdd(hits, "total")
    /\ UNCHANGED <<problem, opc, qtree, bloom, qa, qb, ans, pose, bonus, spc, result, shared_bits, workers, sa, returned>>

\* the caller has read the value
CallReturn(t) ==
    /\ calls[t].pc = "returned"
    /\ calls' = [calls EXCEPT ![t] = IdleCall]
    /\ UNCHANGED <<problem, opc, qtree, bloom, qa, qb, ans, pose, bonus, spc, result, hits, shared_bits, workers, sa, returned>>

InitConcurrent ==
    /\ problem \in ConcurrentProblems
    /\ OracleIdle
    /\ ScoringIdle
    /\ AnnealingIdle

NextConcurrent ==
    \/ GeoHoleQuadTreeNew
    \/ \E t \in Threads, pa \in SharedQueryPoints(problem), pb \in SharedQueryPoints(problem) :
          CallTraverse(t, pa, pb)
    \/ \E t \in Threads : CallMatch(t)
    \/ \E t \in Threads : CallCount(t)
    \/ \E t \in Threads : CallReturn(t)

SpecConcurrent == InitConcurrent /\ [][NextConcurrent]_vars

-----------------------------------------------------------------------------
(* The parallel fill of GeoHoleBloom::new: the range 0 .. sq_field_area is *)
(* split among the workers of the thread pool; a worker takes its          *)
(* positions in order, reads the bit of an invalid pair under the read     *)
(* lock, and, having found it unset, sets it under the write lock.  The    *)
(* read lock is released before the write lock is taken, so other workers  *)
(* read and write in between.                                              *)

BuildProblems == {ProblemDiamond, ProblemShifted}

BloomFieldArea(hole) == BloomFieldWidth(hole) * BloomFieldHeight(hole)
SqFieldArea(hole) == BloomFieldArea(hole) * BloomFieldArea(hole)
BitsCount(hole) == SqFieldArea(hole) \div 10

\* the first position of worker t: the range is cut into equal runs
ChunkStart(hole, t) == ((t - 1) * SqFieldArea(hole)) \div ThreadCount

PointA(hole, sq_position) ==
    PositionPoint(sq_position \div BloomFieldArea(hole), BloomFieldWidth(hole))
PointB(hole, sq_position) ==
    PositionPoint(sq_position % BloomFieldArea(hole), BloomFieldWidth(hole))

\* the closure of the inner flat_map for one position: Some(bit_index), as a
\* set with that element, or None, as the empty set
BitToSet(hole, seeds, bits_count, bits, sq_position) ==
    {BitIndex(seeds[k], BloomKey(PointA(hole, sq_position), PointB(hole, sq_position)),
              bits_count) : k \in 1..Len(seeds)}
    \cap (IF PolygonIsEdgeInvalid(hole, PointA(hole, sq_position), PointB(hole, sq_position))
          THEN (0..(bits_count - 1)) \ bits
          ELSE {})

\* a faulty variant of BitsSet: the write flips the bit
BitsFlip(bits, bit_index) ==
    IF bit_index \in bits THEN bits \ {bit_index} ELSE bits \cup {bit_index}

\* bits.set(bit_index, true)
BitsSet(bits, bit_index) == bits \cup {bit_index}

\* GeoHoleBloom::new up to the start of the parallel iterator
BloomBuildStart(seed) ==
    /\ bloom = NotBuilt
    /\ problem.hole # <<>>
    /\ bloom' = [kind |-> "Building",
                 bits |-> {},
                 bits_len |-> BitsCount(problem.hole),
                 field_min |-> FieldMin(Range(problem.hole)),
                 field_max |-> FieldMax(Range(problem.hole)),
                 hash_fns_seeds |->
                     SubSeq(<<seed>>, 1,
                            HashFnsCount(BitsCount(problem.hole), SqFieldArea(problem.hole)))]
    /\ shared_bits' = {}
    /\ workers' = [t \in Threads |->
                      [pc |-> "iterating",
                       next |-> ChunkStart(problem.hole, t),
                       end |-> ChunkStart(problem.hole, t + 1),
                       bit_index |-> 0]]
    /\ UNCHANGED <<problem, opc, qtree, qa, qb, ans, pose, bonus, spc, result, hits, calls, sa, returned>>

\* worker t takes its next position: the pair, its key and is_invalid, and
\* the read of the bit under the read lock
WorkerRead(t) ==
    /\ bloom.kind = "Building"
    /\ workers[t].pc = "iterating"
    /\ workers[t].next < workers[t].end
    /\ LET found == BitToSet(problem.hole, bloom.hash_fns_seeds, bloom.bits_len,
                             shared_bits, workers[t].next)
       IN  workers' =
              [workers EXCEPT ![t] =
                  IF found = {}
                  THEN [@ EXCEPT !.next = @ + 1]
                  ELSE [@ EXCEPT !.next = @ + 1, !.pc = "yielded",
                                 !.bit_index = CHOOSE bit_index \in found : TRUE]]
    /\ UNCHANGED <<problem, opc, qtree, bloom, qa, qb, ans, pose, bonus, spc, result, hits,
                   calls, shared_bits, sa, returned>>

\* worker t in for_each_with: the bit is set under the write lock
WorkerWrite(t) ==
    /\ bloom.kind = "Building"
    /\ workers[t].pc = "yielded"
    /\ shared_bits' = BitsSet(shared_bits, workers[t].bit_index)
    /\ workers' = [workers EXCEPT ![t] = [@ EXCEPT !.pc = "iterating"]]
    /\ UNCHANGED <<problem, opc, qtree, bloom, qa, qb, ans, pose, bonus, spc, result, hits,
                   calls, sa, returned>>

\* every worker is through its run: Arc::try_unwrap and the Ok(GeoHoleBloom)
BloomBuildFinish ==
    /\ bloom.kind = "Building"
    /\ \A t \in Threads : workers[t].pc = "iterating" /\ workers[t].next = workers[t].end
    /\ bloom' = [bloom EXCEPT !.kind = "GeoHoleBloom", !.bits = shared_bits]
    /\ workers' = [t \in Threads |-> IdleWorker]
    /\ UNCHANGED <<problem, opc, qtree, qa, qb, ans, pose, bonus, spc, result, hits, calls,
                   shared_bits, sa, returned>>

InitBuild ==
    /\ problem \in BuildProblems
    /\ OracleIdle
    /\ ScoringIdle
    /\ AnnealingIdle

NextBuild ==
    \/ \E seed \in 0..(SeedCount - 1) : BloomBuildStart(seed)
    \/ \E t \in Threads : WorkerRead(t)
    \/ \E t \in Threads : WorkerWrite(t)
    \/ BloomBuildFinish

SpecBuild == InitBuild /\ [][NextBuild]_vars

-----------------------------------------------------------------------------
(* Problems and candidate poses handed to the scoring pipeline.            *)

\* every order in which a figure can list the given edges
Orders(edges) ==
    {es \in [1..Len(edges) -> Range(edges)] : Range(es) = Range(edges)}

\* Scenario A: the square hole of side 10 and a figure of one edge
ProblemScenarioA ==
    Problem(<<<<0, 0>>, <<10, 0>>, <<10, 10>>, <<0, 10>>>>,
            Figure(<<<<1, 2>>>>, <<<<0, 0>>, <<10, 0>>>>), 0)

\* a hole with a reflex vertex at (1,1); (2,1) and (2,2) lie outside it
HoleNotch == <<<<0, 0>>, <<2, 0>>, <<1, 1>>, <<1, 2>>, <<0, 2>>>>
\* a triangle; (1,1) and (1,2) lie outside it
HoleSliver == <<<<0, 0>>, <<1, 0>>, <<0, 2>>>>

\* figure vertices with edges of squared length 5, 5 and 4
BendVertices == <<<<0, 0>>, <<1, 2>>, <<2, 0>>>>
PathEdges == <<<<1, 2>>, <<2, 3>>>>
TriangleEdges == <<<<1, 2>>, <<2, 3>>, <<3, 1>>>>
\* a hub (vertex 1) joined to three leaves
StarVertices == <<<<0, 0>>, <<1, 0>>, <<0, 1>>, <<0, 2>>>>
StarEdges == <<<<1, 2>>, <<1, 3>>, <<1, 4>>>>

PathProblems(epsilon) ==
    {Problem(HoleNotch, Figure(es, BendVertices), epsilon) : es \in Orders(PathEdges)}
TriangleProblems(epsilon) ==
    {Problem(HoleNotch, Figure(es, BendVertices), epsilon) : es \in Orders(TriangleEdges)}
StarProblems ==
    {Problem(HoleSliver, Figure(es, StarVertices), 0) : es \in Orders(StarEdges)}

\* a figure whose vertices are the vertices of the hole
ProblemSnug == Problem(HoleSliver, Figure(TriangleEdges, HoleSliver), 0)

ScoreProblems == {ProblemScenarioA, ProblemSnug} \cup PathProblems(600000)
HoleProblems == PathProblems(0) \cup TriangleProblems(0) \cup StarProblems
StretchProblems ==
    PathProblems(600000) \cup TriangleProblems(600000)
    \cup PathProblems(0)

\* Scenario A places vertices on multiples of 10 up to 10 * PoseSpan
PoseSpan == 3

\* where a pose may put a vertex: the lattice of the hole's bounding box
PosePoints(pb) ==
    IF pb = ProblemScenarioA
    THEN {<<10 * x, 10 * y>> : x \in 0..PoseSpan, y \in 0..PoseSpan}
    ELSE Lattice(FieldMin(Range(pb.hole)), FieldMax(Range(pb.hole)))

\* poses with as many vertices as the figure
Poses(pb) == [1..Len(pb.figure.vertices) -> PosePoints(pb)]
\* poses with one vertex too few
ShortPoses(pb) == [1..(Len(pb.figure.vertices) - 1) -> PosePoints(pb)]

\* the figure's own vertices and one vertex more
LongPoses(pb) == {Append(pb.figure.vertices, q) : q \in PosePoints(pb)}
\* a pose without vertices
EmptyPose == <<>>

PoseBonuses == {"None", "Globalist", "Wallhack", "Superflex", "BreakALeg"}

-----------------------------------------------------------------------------
(* The scoring calls as state machines: a caller hands a pose and a bonus  *)
(* to one of the public functions and reads what it returns.               *)

\* Problem::score_vertices with the exact polygon as geo_hole
ScoreVertices(pose_vertices, b) ==
    /\ spc = "idle"
    /\ pose' = pose_vertices
    /\ bonus' = b
    /\ result' = score_vertices(problem, pose_vertices, b)
    /\ spc' = "scored"
    /\ UNCHANGED <<problem, opc, qtree, bloom, qa, qb, ans, hits, calls, shared_bits, workers, sa, returned>>

\* Problem::score_vertices_check_hole
CheckHole(pose_vertices, b) ==
    /\ spc = "idle"
    /\ pose' = pose_vertices
    /\ bonus' = b
    /\ result' = score_vertices_check_hole(problem, pose_vertices, b)
    /\ spc' = "hole_checked"
    /\ UNCHANGED <<problem, opc, qtree, bloom, qa, qb, ans, hits, calls, shared_bits, workers, sa, returned>>

\* Problem::score_vertices_check_stretching
CheckStretching(pose_vertices, b) ==
    /\ spc = "idle"
    /\ pose' = pose_vertices
    /\ bonus' = b
    /\ result' = score_vertices_check_stretching(problem, pose_vertices, b)
    /\ spc' = "stretch_checked"
    /\ UNCHANGED <<problem, opc, qtree, bloom, qa, qb, ans, hits, calls, shared_bits, workers, sa, returned>>

\* the caller has read the result
ScoreReturn ==
    /\ spc # "idle"
    /\ pose' = <<>>
    /\ bonus' = "None"
    /\ result' = NoResult
    /\ spc' = "idle"
    /\ UNCHANGED <<problem, opc, qtree, bloom, qa, qb, ans, hits, calls, shared_bits, workers, sa, returned>>

InitScore ==
    /\ problem \in ScoreProblems
    /\ OracleIdle
    /\ ScoringIdle
    /\ AnnealingIdle

NextScore ==
    \/ \E pose_vertices \in Poses(problem) \cup ShortPoses(problem)
                             \cup LongPoses(problem) \cup {EmptyPose},
          b \in PoseBonuses :
          ScoreVertices(pose_vertices, b)
    \/ ScoreReturn

SpecScore == InitScore /\ [][NextScore]_vars

InitHole ==
    /\ problem \in HoleProblems
    /\ OracleIdle
    /\ ScoringIdle
    /\ AnnealingIdle

NextHole ==
    \/ \E pose_vertices \in Poses(problem), b \in {"None", "Wallhack"} :
          CheckHole(pose_vertices, b)
    \/ ScoreReturn

SpecHole == InitHole /\ [][NextHole]_vars

InitStretch ==
    /\ problem \in StretchProblems
    /\ OracleIdle
    /\ ScoringIdle
    /\ AnnealingIdle

NextStretch ==
    \/ \E pose_vertices \in Poses(problem),
          b \in {"None", "Globalist", "Superflex", "BreakALeg"} :
          CheckStretching(pose_vertices, b)
    \/ ScoreReturn

SpecStretch == InitStretch /\ [][NextStretch]_vars

-----------------------------------------------------------------------------
(* solver::Solver and solver::simulated_annealing.  Vertex indices count   *)
(* from 1.  Every draw of the random generator is a choice among the       *)
(* values it can return; a retry loop ends with one of the draws that      *)
(* leave it, and with its error when no draw does.                         *)

ProblemBonus(position, bonus_type, problem_id) ==
    [position |-> position, bonus |-> bonus_type, problem |-> problem_id]

\* Problem with its bonuses; None and Some(vec![]) are both the empty list,
\* generate_vertices treats them alike
ProblemWithBonuses(pb, bonuses) ==
    [hole |-> pb.hole, figure |-> pb.figure, epsilon |-> pb.epsilon, bonuses |-> bonuses]

\* Solver::new: the field spans the hole and the figure
SolverFieldMin(pb) == FieldMin(Range(pb.hole) \cup Range(pb.figure.vertices))
SolverFieldMax(pb) == FieldMax(Range(pb.hole) \cup Range(pb.figure.vertices))

\* Solver::is_hole: the mask holds hole_poly.contains(point), which counts
\* the boundary ring in
is_hole(pb, point) ==
    /\ InRect(point, SolverFieldMin(pb), SolverFieldMax(pb))
    /\ InHole(pb.hole, point, 1)

\* x / (n as f64) for an integer n >= 1: the quotient digit by digit
RECURSIVE LongDivide(_, _, _, _, _)
LongDivide(bits, n, i, r, acc) ==
    IF i > Len(bits) THEN [bits |-> acc, rem |-> r]
    ELSE LongDivide(bits, n, i + 1, (2 * r + bits[i]) % n,
                    Append(acc, (2 * r + bits[i]) \div n))

FDivBy(x, n) ==
    IF x.zero THEN FZero
    ELSE LET q == LongDivide(x.m \o Zeros(OperandBits), n, 1, 0, <<>>)
         IN  FromBits(x.e, q.bits, q.rem # 0)

FigureCorrupted(ratio_avg) == [kind |-> "FigureCorrupted", ratio_avg |-> ratio_avg]
NotFitHole(bad_edges_count) == [kind |-> "NotFitHole", bad_edges_count |-> bad_edges_count]
FigureScored(score) == [kind |-> "FigureScored", score |-> score]

\* Fitness::calc; todo!() and panic!() end the program
FitnessOfScore(pb, r) ==
    IF r.kind = "Ok" THEN FigureScored(r.value)
    ELSE IF r.kind = "BrokenEdgesFound"
         THEN FigureCorrupted(FDivBy(r.ratio_sum, Len(pb.figure.edges)))
    ELSE IF r.kind = "EdgesNotFitHole" THEN NotFitHole(r.count)
    ELSE [kind |-> "Panic"]

FitnessCalc(pb, vertices, use_bonus) ==
    IF use_bonus = "BreakALeg" THEN [kind |-> "Panic"]
    ELSE FitnessOfScore(pb, score_vertices(pb, vertices, use_bonus))

\* Fitness::energy orders the fitness values: a score of 0 is worth 0, a
\* positive score 2 - 1/score in [1, 2), a corrupted figure 2 + ratio_avg in
\* (2, 3) or 4 - 1/ratio_avg in [3, 4), both growing with ratio_avg, and a
\* figure out of the hole 4 + bad_edges_count
EnergyRank(f) ==
    IF f.kind = "FigureScored" THEN (IF f.score = 0 THEN 0 ELSE 1)
    ELSE IF f.kind = "FigureCorrupted" THEN 2
    ELSE 3

\* f.energy() < g.energy()
EnergyLess(f, g) ==
    \/ EnergyRank(f) < EnergyRank(g)
    \/ /\ EnergyRank(f) = EnergyRank(g)
       /\ IF f.kind = "FigureScored" THEN f.score < g.score
          ELSE IF f.kind = "FigureCorrupted" THEN FGt(g.ratio_avg, f.ratio_avg)
          ELSE f.bad_edges_count < g.bad_edges_count

\* the points the generator can draw for a vertex: x from field_min.0 to
\* field_max.1, y from field_min.1 to field_max.1, redrawn until in the hole
DrawnPoints(pb) ==
    {p \in Lattice(SolverFieldMin(pb), <<SolverFieldMax(pb)[2], SolverFieldMax(pb)[2]>>) :
        is_hole(pb, p)}

DrawnVertices(pb) == [1..Len(pb.figure.vertices) -> DrawnPoints(pb)]

\* the positions generate_vertices freezes a vertex at, in order
FrozenTargets(pb, operating_mode) ==
    IF operating_mode.kind = "BonusCollector"
    THEN IF Len(pb.bonuses) = 0
         THEN [i \in 1..Len(SelectSeq(pb.bonuses,
                      LAMBDA bn : bn.problem = operating_mode.target_problem)) |->
                  SelectSeq(pb.bonuses,
                      LAMBDA bn : bn.problem = operating_mode.target_problem)[i].position]
         ELSE <<>>
    ELSE IF operating_mode.kind = "BonusHunter"
    THEN IF Len(pb.bonuses) # 0
         THEN [i \in 1..Len(pb.bonuses) |-> pb.bonuses[i].position]
         ELSE <<>>
    ELSE IF operating_mode.kind = "ZeroHunter" THEN pb.hole
    ELSE <<>>

GenerateVerticesError(operating_mode) ==
    "ProbablyInfiniteLoopInFrozenIndexIn" \o operating_mode.kind

\* the indices a draw from 0 .. vertices.len() can leave the retry loop with
FreeIndices(vertices, frozen_vertices_indices) ==
    {index \in 1..Len(vertices) : index \notin Range(frozen_vertices_indices)}

\* the freezing loop from target i on: every way it can end, with the
\* vertices and the list as the loop leaves them
RECURSIVE FreezeLoop(_, _, _, _, _)
FreezeLoop(vertices, frozen_vertices_indices, targets, i, error) ==
    IF i > Len(targets)
    THEN {[kind |-> "Ok", vertices |-> vertices,
           frozen_vertices_indices |-> frozen_vertices_indices]}
    ELSE IF FreeIndices(vertices, frozen_vertices_indices) = {}
    THEN {[kind |-> error, vertices |-> vertices,
           frozen_vertices_indices |-> frozen_vertices_indices]}
    ELSE UNION {FreezeLoop([vertices EXCEPT ![index] = targets[i]],
                           Append(frozen_vertices_indices, index),
                           targets, i + 1, error) :
                   index \in FreeIndices(vertices, frozen_vertices_indices)}

\* generate_vertices: vertices is cleared and drawn anew, the list of frozen
\* indices is appended to as it came in
generate_vertices(pb, frozen_vertices_indices, operating_mode) ==
    UNION {FreezeLoop(vertices, frozen_vertices_indices,
                      FrozenTargets(pb, operating_mode), 1,
                      GenerateVerticesError(operating_mode)) :
              vertices \in DrawnVertices(pb)}

\* a convex hole with a path of two edges, and a hole with a reflex vertex
\* with a single edge
AnnealFields ==
    {Problem(HoleSliver, Figure(PathEdges, BendVertices), 600000),
     Problem(HoleNotch, Figure(<<<<1, 2>>>>, <<<<0, 0>>, <<2, 0>>>>), 0)}

\* each without bonuses and with one bonus at (0,1)
AnnealProblems ==
    {ProblemWithBonuses(pb, bonuses) :
        pb \in AnnealFields,
        bonuses \in {<<>>, <<ProblemBonus(<<0, 1>>, "Globalist", 1)>>}}

\* the points of the field in the hole
HolePoints(pb) ==
    {p \in Lattice(SolverFieldMin(pb), SolverFieldMax(pb)) : is_hole(pb, p)}

\* What Fitness::calc returns without a bonus for the vertices the solver can
\* hold on the problems above, as a table: calc is a function of the hole,
\* the figure, epsilon and the vertices, and the table has it computed once.
CalculatedFitness ==
    UNION {{<<pb, vertices, FitnessCalc(pb, vertices, "None")>> :
               vertices \in [1..Len(pb.figure.vertices) -> HolePoints(pb)]} :
              pb \in AnnealFields}

FitnessOf(pb, vertices, use_bonus) ==
    IF /\ use_bonus = "None"
       /\ \E e \in CalculatedFitness :
             /\ e[1] = Problem(pb.hole, pb.figure, pb.epsilon)
             /\ e[2] = vertices
    THEN (CHOOSE e \in CalculatedFitness :
             /\ e[1] = Problem(pb.hole, pb.figure, pb.epsilon)
             /\ e[2] = vertices)[3]
    ELSE FitnessCalc(pb, vertices, use_bonus)

\* Params: temperatures and probabilities count in 64ths, so max_temp is 2.0,
\* cooling_step_temp 0.25, minimum_temp 0.9375 and both probabilities 0.5;
\* with these every product, quotient and difference of step is exact in f64
AnnealParams(operating_mode) ==
    [max_temp |-> 128,
     cooling_step_temp |-> 16,
     minimum_temp |-> 60,
     valid_edge_accept_prob |-> 32,
     frozen_swap_prob |-> 32,
     iterations_per_cooling_step |-> 1,
     operating_mode |-> operating_mode]

OperatingModes ==
    {[kind |-> "ScoreMaximizer"],
     [kind |-> "BonusCollector", target_problem |-> 1],
     [kind |-> "BonusHunter"],
     [kind |-> "ZeroHunter"]}

Returned(op, kind) == [op |-> op, kind |-> kind]

\* vertices_tmp is left out of the state: step overwrites it with
\* vertices_cur before it reads it, and nothing else reads it
SimulatedAnnealingSolver(params, use_bonus, vertices_cur, frozen_vertices_indices, fitness_cur, temp, steps) ==
    [kind |-> "SimulatedAnnealingSolver",
     params |-> params,
     use_bonus |-> use_bonus,
     vertices_cur |-> vertices_cur,
     frozen_vertices_indices |-> frozen_vertices_indices,
     fitness_cur |-> fitness_cur,
     temp |-> temp,
     steps |-> steps]

\* SimulatedAnnealingSolver::new on a Solver built for the problem without a
\* bonus in use
SimulatedAnnealingSolverNew(operating_mode) ==
    /\ sa = NoSolver
    /\ \E g \in generate_vertices(problem, <<>>, operating_mode) :
          IF g.kind = "Ok"
          THEN /\ sa' = SimulatedAnnealingSolver(
                            AnnealParams(operating_mode), "None", g.vertices,
                            g.frozen_vertices_indices,
                            FitnessOf(problem, g.vertices, "None"),
                            AnnealParams(operating_mode).max_temp, 0)
               /\ returned' = Returned("new", "Ok")
          ELSE /\ sa' = NoSolver
               /\ returned' = Returned("new", g.kind)
    /\ UNCHANGED <<problem, opc, qtree, bloom, qa, qb, ans, pose, bonus, spc, result, hits,
                   calls, shared_bits, workers>>

\* SimulatedAnnealingSolver::reset: on an error of generate_vertices the `?`
\* returns with vertices_cur and the list as generate_vertices left them
Reset ==
    /\ sa.kind = "SimulatedAnnealingSolver"
    /\ \E g \in generate_vertices(problem, sa.frozen_vertices_indices,
                                  sa.params.operating_mode) :
          IF g.kind = "Ok"
          THEN /\ sa' = [sa EXCEPT
                            !.vertices_cur = g.vertices,
                            !.frozen_vertices_indices = g.frozen_vertices_indices,
                            !.temp = sa.params.max_temp,
                            !.steps = 0,
                            !.fitness_cur = FitnessOf(problem, g.vertices, sa.use_bonus)]
               /\ returned' = Returned("reset", "Ok")
          ELSE /\ sa' = [sa EXCEPT
                            !.vertices_cur = g.vertices,
                            !.frozen_vertices_indices = g.frozen_vertices_indices]
               /\ returned' = Returned("reset", g.kind)
    /\ UNCHANGED <<problem, opc, qtree, bloom, qa, qb, ans, pose, bonus, spc, result, hits,
                   calls, shared_bits, workers>>

Swapped(vertices, i, j) == [vertices EXCEPT ![i] = vertices[j], ![j] = vertices[i]]

\* rng.gen_range(0.0 .. 1.0) < accept_prob: the draw lies in [0, 1), so the
\* move can always be accepted (accept_prob is 1.0 or an exponential above
\* 0), and can be rejected only when q_tmp > q_cur: for q_tmp = q_cur the
\* exponential is 1.0.  q is the energy times two positive constants.
Decide(s, accepted) ==
    {[kind |-> "Ok", sa |-> accepted]}
    \cup (IF EnergyLess(s.fitness_cur, accepted.fitness_cur)
          THEN {[kind |-> "Ok", sa |-> s]} ELSE {})

\* one iteration that swaps a frozen vertex with a free one
SwapIteration(pb, s) ==
    IF FreeIndices(s.vertices_cur, s.frozen_vertices_indices) = {}
    THEN {[kind |-> "ProbablyInfiniteLoopInFrozenIndex", sa |-> s]}
    ELSE UNION {Decide(s, [s EXCEPT
                    !.frozen_vertices_indices[frozen_index] = pose_vertices_index,
                    !.vertices_cur =
                        Swapped(s.vertices_cur,
                                s.frozen_vertices_indices[frozen_index],
                                pose_vertices_index),
                    !.fitness_cur =
                        FitnessOf(pb,
                                    Swapped(s.vertices_cur,
                                            s.frozen_vertices_indices[frozen_index],
                                            pose_vertices_index),
                                    s.use_bonus)]) :
                   frozen_index \in 1..Len(s.frozen_vertices_indices),
                   pose_vertices_index \in
                       FreeIndices(s.vertices_cur, s.frozen_vertices_indices)}

\* solver::is_edge_ratio_valid
is_edge_ratio_valid(edge, vertices, pb) ==
    ~FGt(EdgeRatio(pb, vertices, edge), FDivInt(pb.epsilon, Million))

\* the edge can pass the `continue` of the vertex loop: a valid edge is
\* skipped when the draw is at least valid_edge_accept_prob
EdgeMayPass(pb, s, edge) ==
    \/ s.use_bonus # "None"
    \/ ~is_edge_ratio_valid(edge, s.vertices_cur, pb)
    \/ s.params.valid_edge_accept_prob > 0

\* the vertices the vertex loop can leave with
MovableVertices(pb, s) ==
    {edge[k] : edge \in {e \in Range(pb.figure.edges) : EdgeMayPass(pb, s, e)},
               k \in 1..2}
    \ Range(s.frozen_vertices_indices)

allow_hole(pb, s, try_vertex) ==
    IF s.use_bonus = "Wallhack"
    THEN IF \E i \in 1..Len(s.vertices_cur) : ~is_hole(pb, s.vertices_cur[i])
         THEN is_hole(pb, try_vertex)
         ELSE TRUE
    ELSE is_hole(pb, try_vertex)

\* the positions the moved-vertex loop can leave with
MovedVertices(pb, s, vertex) ==
    {try_vertex \in Lattice(<<vertex[1] - 1, vertex[2] - 1>>,
                            <<vertex[1] + 1, vertex[2] + 1>>) :
        try_vertex # vertex /\ allow_hole(pb, s, try_vertex)}

MoveVertex(pb, s, vertex_index) ==
    IF MovedVertices(pb, s, s.vertices_cur[vertex_index]) = {}
    THEN {[kind |-> "ProbablyInfiniteLoopInMovedVertex", sa |-> s]}
    ELSE UNION {Decide(s, [s EXCEPT
                    !.vertices_cur[vertex_index] = moved_vertex,
                    !.fitness_cur =
                        FitnessOf(pb,
                                    [s.vertices_cur EXCEPT ![vertex_index] = moved_vertex],
                                    s.use_bonus)]) :
                   moved_vertex \in MovedVertices(pb, s, s.vertices_cur[vertex_index])}

\* one iteration that moves a vertex of an edge by one step
MoveIteration(pb, s) ==
    IF MovableVertices(pb, s) = {}
    THEN {[kind |-> "ProbablyInfiniteLoopInVertexIndex", sa |-> s]}
    ELSE UNION {MoveVertex(pb, s, vertex_index) :
                   vertex_index \in MovableVertices(pb, s)}

\* the branch of one iteration is drawn against frozen_swap_prob
Iteration(pb, s) ==
    (IF s.frozen_vertices_indices # <<>> /\ s.params.frozen_swap_prob > 0
     THEN SwapIteration(pb, s) ELSE {})
    \cup (IF s.frozen_vertices_indices = <<>> \/ s.params.frozen_swap_prob < 64
          THEN MoveIteration(pb, s) ELSE {})

\* the loop of step with n iterations to go; an error returns at once
RECURSIVE Iterations(_, _, _)
Iterations(pb, s, n) ==
    IF n = 0 THEN {[kind |-> "Ok", sa |-> s]}
    ELSE UNION {IF o.kind = "Ok" THEN Iterations(pb, o.sa, n - 1) ELSE {o} :
                   o \in Iteration(pb, s)}

\* SimulatedAnnealingSolver::step
Step ==
    /\ sa.kind = "SimulatedAnnealingSolver"
    /\ IF sa.temp < sa.params.minimum_temp
       THEN /\ returned' = Returned("step", "TempTooLow")
            /\ sa' = sa
       ELSE \E o \in Iterations(problem, sa, sa.params.iterations_per_cooling_step) :
               IF o.kind = "Ok"
               THEN /\ sa' = [o.sa EXCEPT
                                 !.temp = @ - ((@ * 2 * sa.params.cooling_step_temp)
                                                  \div sa.params.max_temp),
                                 !.steps = @ + 1]
                    /\ returned' = Returned("step", "Ok")
               ELSE /\ sa' = o.sa
                    /\ returned' = Returned("step", o.kind)
    /\ UNCHANGED <<problem, opc, qtree, bloom, qa, qb, ans, pose, bonus, spc, result, hits,
                   calls, shared_bits, workers>>

InitAnneal ==
    /\ problem \in AnnealProblems
    /\ OracleIdle
    /\ ScoringIdle
    /\ AnnealingIdle

NextAnneal ==
    \/ \E operating_mode \in OperatingModes : SimulatedAnnealingSolverNew(operating_mode)
    \/ Reset
    \/ Step

SpecAnneal == InitAnneal /\ [][NextAnneal]_vars

-----------------------------------------------------------------------------
\* C1: for every hole and every pair of lattice points (in the field and
\* around it), the quad tree answers is_edge_invalid as the exact polygon
\* oracle does.
QuadTreeMatchesPolygon ==
    (opc = "quad_answered") => (ans.test = ans.orig)

\* C2: for every hole, wherever its bounding box lies, and every pair of
\* lattice points, the Bloom oracle answers is_edge_invalid as the exact
\* polygon oracle does.
BloomMatchesPolygon ==
    (opc = "bloom_answered") => (ans.test = ans.orig)

-----------------------------------------------------------------------------
(* What the claims about the scoring pipeline speak of, stated on the      *)
(* state of a call that has returned.                                      *)

EdgeCount == Len(problem.figure.edges)
EdgeFrom(i) == problem.figure.edges[i][1]
EdgeTo(i) == problem.figure.edges[i][2]

\* the exact polygon oracle on the posed edge i / on the posed vertex v
PosedEdgeInvalid(i) == PolygonIsEdgeInvalid(problem.hole, pose[EdgeFrom(i)], pose[EdgeTo(i)])
VertexOutside(v) == PolygonIsEdgeInvalid(problem.hole, pose[v], pose[v])

\* the vertex indices that are an end point of some figure edge
EdgeEndpoints == {EdgeFrom(i) : i \in 1..EdgeCount} \cup {EdgeTo(i) : i \in 1..EdgeCount}
OutsideEndpoints == {v \in EdgeEndpoints : VertexOutside(v)}
OutsideVertices == {v \in 1..Len(pose) : VertexOutside(v)}
Joined(u, w) == \E i \in 1..EdgeCount : {EdgeFrom(i), EdgeTo(i)} = {u, w}

\* squared lengths of edge i in the figure and in the pose
DBefore(i) == distance(problem.figure.vertices[EdgeFrom(i)], problem.figure.vertices[EdgeTo(i)])
DAfter(i) == distance(pose[EdgeFrom(i)], pose[EdgeTo(i)])

\* edge i is over the tolerance: |d_after - d_before| * 1_000_000 > epsilon * d_before
OverTolerance(i) == Abs(DAfter(i) - DBefore(i)) * Million > problem.epsilon * DBefore(i)
OverToleranceCount == Cardinality({i \in 1..EdgeCount : OverTolerance(i)})

\* product of the d_before of all edges from i on, but for edge skip
RECURSIVE DBeforeProduct(_, _)
DBeforeProduct(i, skip) ==
    IF i > EdgeCount THEN 1
    ELSE (IF i = skip THEN 1 ELSE DBefore(i)) * DBeforeProduct(i + 1, skip)

\* the sum of |d_after / d_before - 1| over the edges from i on, times the
\* product of all d_before
RECURSIVE RatioSumScaled(_)
RatioSumScaled(i) ==
    IF i > EdgeCount THEN 0
    ELSE Abs(DAfter(i) - DBefore(i)) * DBeforeProduct(1, i) + RatioSumScaled(i + 1)

\* the sum of the ratios does not exceed edge_count * epsilon / 1_000_000
WithinGlobalBudget ==
    RatioSumScaled(1) * Million <= EdgeCount * problem.epsilon * DBeforeProduct(1, 0)

CountMatches == Len(pose) = Len(problem.figure.vertices)

-----------------------------------------------------------------------------
\* C3: score_vertices checks the vertex count, then the containment in the
\* hole, then the stretching, and returns the first error: a pose with the
\* right vertex count that both breaks an edge-length tolerance and has an
\* edge outside the hole yields EdgesNotFitHole.
ContainmentErrorComesFirst ==
    (/\ spc = "scored"
     /\ bonus = "None"
     /\ CountMatches
     /\ \E i \in 1..EdgeCount : PosedEdgeInvalid(i)
     /\ score_vertices_check_stretching(problem, pose, bonus).kind = "BrokenEdgesFound")
    => result.kind = "EdgesNotFitHole"

\* C3 as stated: such a pose yields BrokenEdgesFound.
StretchErrorComesFirst ==
    (/\ spc = "scored"
     /\ bonus = "None"
     /\ CountMatches
     /\ \E i \in 1..EdgeCount : PosedEdgeInvalid(i)
     /\ score_vertices_check_stretching(problem, pose, bonus).kind = "BrokenEdgesFound")
    => result.kind = "BrokenEdgesFound"

BothStagesFail ==
    /\ spc = "scored"
    /\ bonus = "None"
    /\ CountMatches
    /\ \E i \in 1..EdgeCount : PosedEdgeInvalid(i)
    /\ \E i \in 1..EdgeCount : OverTolerance(i)
    /\ result.kind = "EdgesNotFitHole"

\* C4: in Scenario A without a bonus, score_vertices returns Ok(200) for the
\* candidate (0,0),(10,0) (the hole vertices (10,10) and (0,10) are each at
\* squared distance 100 from the nearest pose vertex) and EdgesNotFitHole
\* for the candidate (20,20),(30,30).
ScenarioAScores ==
    (spc = "scored" /\ problem = ProblemScenarioA /\ bonus = "None")
    => /\ (pose = <<<<0, 0>>, <<10, 0>>>>) => (result = Ok(200))
       /\ (pose = <<<<20, 20>>, <<30, 30>>>>) => (result.kind = "EdgesNotFitHole")

\* C4 as stated: Ok(0) for the candidate (0,0),(10,0).
ScenarioAScoresZero ==
    (spc = "scored" /\ problem = ProblemScenarioA /\ bonus = "None")
    => /\ (pose = <<<<0, 0>>, <<10, 0>>>>) => (result = Ok(0))
       /\ (pose = <<<<20, 20>>, <<30, 30>>>>) => (result.kind = "EdgesNotFitHole")

ScenarioAScored ==
    /\ spc = "scored"
    /\ problem = ProblemScenarioA
    /\ bonus = "None"
    /\ pose = <<<<0, 0>>, <<10, 0>>>>
    /\ result.kind = "Ok"

\* C5: with Wallhack, score_vertices_check_hole returns Ok only if at most
\* one vertex index among the end points of the figure edges is posed
\* outside the hole.
WallhackAdmitsOneOutsideVertex ==
    (spc = "hole_checked" /\ bonus = "Wallhack" /\ result.kind = "Ok")
    => Cardinality(OutsideEndpoints) <= 1

\* C6: with Wallhack, a pose with exactly one vertex outside the hole whose
\* invalid edges are all incident to that vertex passes the hole check,
\* whatever the order of figure.edges; without a bonus it is rejected with
\* EdgesNotFitHole.
WallhackExcusesSingleOutsideVertex ==
    (/\ spc = "hole_checked"
     /\ Cardinality(OutsideVertices) = 1
     /\ \A i \in 1..EdgeCount :
           PosedEdgeInvalid(i) => (VertexOutside(EdgeFrom(i)) \/ VertexOutside(EdgeTo(i))))
    => /\ (bonus = "Wallhack") => (result.kind = "Ok")
       /\ (bonus = "None") => (result.kind = "EdgesNotFitHole")

SingleOutsideVertexExcused ==
    /\ spc = "hole_checked"
    /\ bonus = "Wallhack"
    /\ Cardinality(OutsideVertices) = 1
    /\ Cardinality({i \in 1..EdgeCount : PosedEdgeInvalid(i)}) = 2
    /\ \A i \in 1..EdgeCount :
          PosedEdgeInvalid(i) => (VertexOutside(EdgeFrom(i)) \/ VertexOutside(EdgeTo(i)))
    /\ result.kind = "Ok"

\* C7: with Wallhack, a pose in which two vertices that are end points of
\* edges lie outside the hole and are not joined by a figure edge is
\* rejected with EdgesNotFitHole, whatever the order of figure.edges and
\* also when the two have the same coordinates.
WallhackRejectsUnjoinedOutsidePair ==
    (/\ spc = "hole_checked"
     /\ bonus = "Wallhack"
     /\ \E u \in OutsideEndpoints, w \in OutsideEndpoints : u # w /\ ~Joined(u, w))
    => result.kind = "EdgesNotFitHole"

\* C8: without a bonus, score_vertices_check_stretching returns Ok when no
\* edge is over the tolerance and otherwise BrokenEdgesFound with the number
\* of edges over the tolerance; an edge whose deviation equals the tolerance
\* is not over it.
StretchCountsEdgesOverTolerance ==
    (spc = "stretch_checked" /\ bonus = "None")
    => IF OverToleranceCount = 0
       THEN result.kind = "Ok"
       ELSE /\ result.kind = "BrokenEdgesFound"
            /\ result.broken_edges_count = OverToleranceCount

\* C9: with Globalist, the stretch check returns Ok if and only if the sum of
\* the ratios of all edges does not exceed edge_count * epsilon / 1_000_000,
\* and BrokenEdgesFound otherwise.
GlobalistChecksTheSum ==
    (spc = "stretch_checked" /\ bonus = "Globalist")
    => IF WithinGlobalBudget
       THEN result.kind = "Ok"
       ELSE result.kind = "BrokenEdgesFound"

\* C10: with Superflex, the stretch check passes a pose with exactly one edge
\* over the tolerance and fails one with two or more, whichever edges they
\* are and in whatever order the figure lists them.
SuperflexExemptsOneEdge ==
    (spc = "stretch_checked" /\ bonus = "Superflex")
    => /\ (OverToleranceCount = 1) => (result.kind = "Ok")
       /\ (OverToleranceCount >= 2) => (result.kind = "BrokenEdgesFound")

-----------------------------------------------------------------------------
\* the number of figure edges the exact oracle reports invalid in the pose
InvalidEdgeCount == Cardinality({i \in 1..EdgeCount : PosedEdgeInvalid(i)})

\* C11: without a bonus, score_vertices_check_hole returns Ok exactly when no
\* figure edge is reported invalid on its posed end points, and otherwise
\* EdgesNotFitHole(n) with n the number of figure edges reported invalid.
HoleCheckCountsInvalidEdges ==
    (spc = "hole_checked" /\ bonus = "None")
    => result = IF InvalidEdgeCount = 0
                THEN Ok(<<>>)
                ELSE EdgesNotFitHole(InvalidEdgeCount)

SomeEdgesOutOfHole ==
    /\ spc = "hole_checked"
    /\ bonus = "None"
    /\ EdgeCount = 3
    /\ PosedEdgeInvalid(1)
    /\ InvalidEdgeCount = 2
    /\ result = EdgesNotFitHole(2)

\* the squared distance from hole vertex i to the nearest vertex of the pose
NearestPoseVertex(i) == SetMin({distance(problem.hole[i], pose[k]) : k \in 1..Len(pose)})

\* the sum of NearestPoseVertex over the hole vertices from i on
RECURSIVE NearestSum(_)
NearestSum(i) ==
    IF i > Len(problem.hole) THEN 0 ELSE NearestPoseVertex(i) + NearestSum(i + 1)

\* C12: when all checks pass, score_vertices returns the sum over the hole
\* vertices of the least squared distance to a pose vertex, and the result is
\* 0 exactly when every hole vertex coincides with some pose vertex.
ScoreIsSumOfNearestDistances ==
    (spc = "scored" /\ result.kind = "Ok")
    => /\ result.value = NearestSum(1)
       /\ (result.value = 0) <=> (Range(problem.hole) \subseteq Range(pose))

HoleCoveredScoresZero ==
    /\ spc = "scored"
    /\ Range(problem.hole) \subseteq Range(pose)
    /\ result = Ok(0)

\* C13: a pose whose length differs from figure.vertices.len() (shorter,
\* longer or empty) fails the count check with VerticeCountMismatch, and
\* score_vertices returns that error; a pose of equal length passes the count
\* check.
CountMismatchIsRejected ==
    (spc = "scored" /\ bonus # "BreakALeg")
    => IF CountMatches
       THEN /\ score_vertices_check_count(problem, pose, bonus) = Ok(<<>>)
            /\ result # VerticeCountMismatch
       ELSE /\ score_vertices_check_count(problem, pose, bonus) = VerticeCountMismatch
            /\ result = VerticeCountMismatch

LongPoseRejected ==
    /\ spc = "scored"
    /\ bonus = "None"
    /\ Len(pose) > Len(problem.figure.vertices)
    /\ result = VerticeCountMismatch

\* C14: with BreakALeg, score_vertices never returns Ok nor a
\* PoseValidationError: it aborts as not supported for every pose, also for
\* one whose vertex count mismatches.
BreakALegAlwaysAborts ==
    (spc = "scored" /\ bonus = "BreakALeg") => result = Unimplemented

BreakALegAbortsOnMismatch ==
    /\ spc = "scored"
    /\ bonus = "BreakALeg"
    /\ ~CountMatches
    /\ result = Unimplemented

\* C15: scoring the untouched figure without a bonus never fails the count
\* or the stretch check, for any epsilon including 0: the result is
\* Ok(dislikes) exactly when the oracle finds every figure edge valid, and
\* EdgesNotFitHole otherwise.
UntouchedFigureScores ==
    (spc = "scored" /\ bonus = "None" /\ pose = problem.figure.vertices)
    => /\ score_vertices_check_count(problem, pose, bonus).kind = "Ok"
       /\ score_vertices_check_stretching(problem, pose, bonus).kind = "Ok"
       /\ result = IF InvalidEdgeCount = 0
                   THEN Ok(NearestSum(1))
                   ELSE EdgesNotFitHole(InvalidEdgeCount)

UntouchedFigureAccepted ==
    /\ spc = "scored"
    /\ bonus = "None"
    /\ pose = problem.figure.vertices
    /\ problem.epsilon = 0
    /\ result.kind = "Ok"

-----------------------------------------------------------------------------
\* C16: for the exact polygon, the quad tree and the Bloom filter,
\* is_edge_invalid(a, b) = is_edge_invalid(b, a) for every pair of lattice
\* points, and the Bloom key of (a, b) is the key of (b, a).
EdgeDirectionIsIrrelevant ==
    /\ (opc # "idle") => (ans.orig = PolygonIsEdgeInvalid(problem.hole, qb, qa))
    /\ (opc = "quad_answered")
       => (ans.test = QuadTreeIsEdgeInvalid(qtree.root, problem.hole, qb, qa))
    /\ (opc = "bloom_answered")
       => /\ ans.test = BloomIsEdgeInvalid(bloom, problem.hole, qb, qa)
          /\ BloomKey(qa, qb) = BloomKey(qb, qa)

ReversedEdgeAnswered ==
    /\ opc = "bloom_answered"
    /\ PointLess(qb, qa)
    /\ ~ans.test
    /\ BloomKey(qa, qb) = [edge_min |-> qb, edge_max |-> qa]

\* the root rectangle of the quad tree: [field_min - 2, field_max + 3]
OutOfRoot(p) ==
    \/ p[1] < FieldMin(Range(problem.hole) \cup Range(problem.figure.vertices))[1] - 2
    \/ p[2] < FieldMin(Range(problem.hole) \cup Range(problem.figure.vertices))[2] - 2
    \/ p[1] > FieldMax(Range(problem.hole) \cup Range(problem.figure.vertices))[1] + 3
    \/ p[2] > FieldMax(Range(problem.hole) \cup Range(problem.figure.vertices))[2] + 3

\* the bounding box of the hole: [field_min, field_max]
OutOfBox(p) ==
    \/ p[1] < FieldMin(Range(problem.hole))[1] \/ p[2] < FieldMin(Range(problem.hole))[2]
    \/ p[1] > FieldMax(Range(problem.hole))[1] \/ p[2] > FieldMax(Range(problem.hole))[2]

\* C17: is_edge_invalid returns true whenever an end point lies outside the
\* range the oracle knows: the root rectangle for the quad tree (also when
\* the other end point is inside the hole), the hole's bounding box for the
\* Bloom filter.
OutOfRangeIsInvalid ==
    /\ (opc = "quad_answered" /\ (OutOfRoot(qa) \/ OutOfRoot(qb))) => ans.test
    /\ (opc = "bloom_answered" /\ (OutOfBox(qa) \/ OutOfBox(qb))) => ans.test

OutOfRootToInside ==
    /\ opc = "quad_answered"
    /\ OutOfRoot(qa)
    /\ ~PolygonIsEdgeInvalid(problem.hole, qb, qb)
    /\ ans.test

-----------------------------------------------------------------------------
\* C18: GeoHoleQuadTree::new returns Err(FieldIsTooSmall) when the coordinate
\* range of the hole collapses in some axis (all hole and figure points share
\* one x or one y), instead of returning a tree or panicking.
FlatFieldIsTooSmall ==
    (qtree # NotBuilt /\ problem \in FlatProblems) => (qtree.kind = "FieldIsTooSmall")

\* C19: an oracle built again from the same hole answers every query as the
\* first build did; for the Bloom filter no answer depends on the seeds a
\* build draws.
RebuildKeepsAnswers ==
    /\ (opc = "quad_answered")
       => (ans.test = QuadTreeIsEdgeInvalid(RootOf(problem), problem.hole, qa, qb))
    /\ (opc = "bloom_answered")
       => (ans.test = BloomIsEdgeInvalid(bloom, problem.hole, qa, qb))

\* C20: under any interleaving of is_edge_invalid calls on one
\* GeoHoleQuadTree, each call returns the value it returns when run alone,
\* and the tree is as new built it; only the HITS_* counters change.
ConcurrentQueriesArePure ==
    /\ \A t \in Threads :
          (calls[t].pc = "returned")
          => (calls[t].is_invalid =
                 QuadTreeIsEdgeInvalid(RootOf(problem), problem.hole,
                                       calls[t].from, calls[t].to))
    /\ (qtree # NotBuilt) => (qtree.root = RootOf(problem))

CallsOverlap ==
    /\ calls[1].pc = "returned"
    /\ calls[1].is_invalid
    /\ calls[2].pc = "matched"
    /\ ~calls[2].is_invalid
    /\ hits.total = 1
    /\ hits.node_outside > 0

\* the points where the segment qa-qb can meet the boundary of the hole
\* without crossing it: hole vertices on the segment, and end points of the
\* segment on the boundary
ContactPoints ==
    {v \in Range(problem.hole) : OnSegment(v, qa, qb)}
    \cup {p \in {qa, qb} : OnRing(problem.hole, p, 1)}

TouchesOneHoleVertex ==
    /\ SegmentInHole(problem.hole, qa, qb)
    /\ Cardinality(ContactPoints) = 1
    /\ ContactPoints \subseteq Range(problem.hole)

\* C21: a segment that lies within the hole and meets the boundary of the
\* hole in a single hole vertex only is valid for the quad tree.
VertexTouchIsValid ==
    (opc = "quad_answered" /\ TouchesOneHoleVertex) => (ans.test = FALSE)

\* C21 for segments of positive length
ProperVertexTouchIsValid ==
    (opc = "quad_answered" /\ TouchesOneHoleVertex /\ qa # qb) => (ans.test = FALSE)

VertexTouchAnswered ==
    /\ opc = "quad_answered"
    /\ TouchesOneHoleVertex
    /\ qa # qb
    /\ qb \in Range(problem.hole)
    /\ ans.test = FALSE

\* the lattice points of the bounding box of the hole
FieldPoints == Lattice(FieldMin(Range(problem.hole)), FieldMax(Range(problem.hole)))

\* every bit position of the key of pa-pb is set in the filter
AllBitsSet(pa, pb) ==
    \A k \in 1..Len(bloom.hash_fns_seeds) :
        BitIndex(bloom.hash_fns_seeds[k], BloomKey(pa, pb), bloom.bits_len) \in bloom.bits

\* C22: after GeoHoleBloom::new, every pair of lattice points of the hole's
\* bounding box whose segment the exact oracle reports invalid has all the
\* bit positions of its key set, wherever the bounding box lies.
InvalidPairsAreInFilter ==
    (bloom # NotBuilt /\ bloom.kind = "GeoHoleBloom")
    => \A pa \in FieldPoints, pb \in FieldPoints :
          PolygonIsEdgeInvalid(problem.hole, pa, pb) => AllBitsSet(pa, pb)

\* C23: while GeoHoleBloom::new fills the filter in parallel every bit only
\* goes from false to true, and whatever the interleaving of the workers the
\* finished bit array is the one of the sequential fill with the same seeds:
\* the union of the bit positions of the invalid pairs the fill goes over.
ParallelFillIsDeterministic ==
    /\ [](bloom.kind = "GeoHoleBloom"
          => bloom = BloomOf(problem, bloom.hash_fns_seeds[1]))
    /\ [][shared_bits \subseteq shared_bits']_vars

\* both workers found the same bit unset; one has written it, the other is
\* about to
BothWorkersWriteOneBit ==
    /\ bloom.kind = "Building"
    /\ workers[1].pc = "yielded"
    /\ workers[2].pc = "iterating"
    /\ workers[1].bit_index \in shared_bits

\* what the root of the tree answers for the query in flight
RootAnswer == QuadTreeEdgeNodeIntersection(qtree.root, qa, qb)

\* C24: GeoHoleQuadTree::is_edge_invalid returns true for Outside and for
\* DoesNot, false for Inside, and the exact polygon's answer for Uncertain;
\* the polygon is consulted (HITS_SLOW goes up by one) in a call whose root
\* answer is Uncertain, and in no other call.
RootResultMapping ==
    /\ [](opc = "quad_answered"
          => /\ (RootAnswer \in {"Outside", "DoesNot"}) => (ans.test = TRUE)
             /\ (RootAnswer = "Inside") => (ans.test = FALSE)
             /\ (RootAnswer = "Uncertain") => (ans.test = ans.orig)
             /\ RootAnswer \in {"Outside", "DoesNot", "Inside", "Uncertain"})
    /\ [][opc' = "quad_answered"
          => hits'.slow = hits.slow + (IF RootAnswer' = "Uncertain" THEN 1 ELSE 0)]_vars

UncertainResolvedByPolygon ==
    /\ opc = "quad_answered"
    /\ RootAnswer = "Uncertain"
    /\ hits.slow = 1
    /\ qa # qb
    /\ ans.test = FALSE

RECURSIVE Subnodes(_)
RECURSIVE SubnodesFrom(_, _)
SubnodesFrom(children, i) ==
    IF i > Len(children) THEN {}
    ELSE Subnodes(children[i]) \cup SubnodesFrom(children, i + 1)

\* the nodes of the tree below and including node
Subnodes(node) ==
    IF node.kind = "Branch" THEN {node} \cup SubnodesFrom(node.children, 1) ELSE {node}

\* the Branch nodes of the built tree that the query in flight meets
BranchesMet ==
    {node \in Subnodes(qtree.root) :
        node.kind = "Branch" /\ LineIntersectsRect(qa, qb, node.min, node.max)}

ChildAnswers(node) ==
    {QuadTreeEdgeNodeIntersection(node.children[i], qa, qb) : i \in 1..Len(node.children)}

BranchRule(node) ==
    IF "Outside" \in ChildAnswers(node) THEN "Outside"
    ELSE IF "Uncertain" \in ChildAnswers(node) THEN "Uncertain"
    ELSE "Inside"

\* node with its children in the order p
Reordered(node, p) ==
    [node EXCEPT !.children = [i \in 1..Len(node.children) |-> node.children[p[i]]]]

\* C25: a Branch node whose rectangle the segment meets answers Outside if a
\* child answers Outside, else Uncertain if a child answers Uncertain, else
\* Inside, in whatever order its children stand; children that answer
\* DoesNot do not count.
BranchAnswerRule ==
    (opc = "quad_answered")
    => \A node \in BranchesMet :
          \A p \in Permutations(1..Len(node.children)) :
              QuadTreeEdgeNodeIntersection(Reordered(node, p), qa, qb) = BranchRule(node)

\* the root meets the edge in a child that answers Uncertain before one that
\* answers Outside, and in one that answers DoesNot
OutsideAfterUncertain ==
    /\ opc = "quad_answered"
    /\ qtree.root.kind = "Branch"
    /\ \E i, j \in 1..Len(qtree.root.children) :
          /\ i < j
          /\ QuadTreeEdgeNodeIntersection(qtree.root.children[i], qa, qb) = "Uncertain"
          /\ QuadTreeEdgeNodeIntersection(qtree.root.children[j], qa, qb) = "Outside"
    /\ "DoesNot" \in ChildAnswers(qtree.root)
    /\ RootAnswer = "Outside"

\* the segment a-b and the segment p-q have no point in common but c
MeetOnlyAt(a, b, p, q, c) ==
    \/ ~SegmentsIntersect(a, b, p, q)
    \/ /\ OnSegment(c, a, b)
       /\ OnSegment(c, p, q)
       /\ \A e \in {p, q} : (e # c) => ~OnSegment(e, a, b)
       /\ \A e \in {a, b} : (e # c) => ~OnSegment(e, p, q)

\* the query in flight meets the cell of node in its corner c and nowhere else
TouchesCellAt(node, c) ==
    /\ OnSegment(c, qa, qb)
    /\ c \in {node.min, node.max, <<node.min[1], node.max[2]>>, <<node.max[1], node.min[2]>>}
    /\ \A side \in {NodeEdgeUpper(node.min, node.max), NodeEdgeRight(node.min, node.max),
                    NodeEdgeBottom(node.min, node.max), NodeEdgeLeft(node.min, node.max)} :
          MeetOnlyAt(qa, qb, side[1], side[2], c)

\* the ConditionsSet leaves of the built tree that the query in flight meets
ConditionLeavesMet ==
    {node \in Subnodes(qtree.root) :
        node.kind = "ConditionsSet" /\ LineIntersectsRect(qa, qb, node.min, node.max)}

TouchesRecordedCorner(node) ==
    \E k \in 1..Len(node.conditions) : TouchesCellAt(node, node.conditions[k])

\* C26: a ConditionsSet leaf that the segment meets answers Inside only when
\* the segment meets the cell in one corner and nowhere else and that corner
\* is the corner of a recorded EdgeCornerTouch; for every other contact, a
\* touch at a corner that is not recorded included, it answers Outside.
ConditionsSetAnswer ==
    (opc = "quad_answered")
    => \A node \in ConditionLeavesMet :
          /\ QuadTreeEdgeNodeIntersection(node, qa, qb) \in {"Inside", "Outside"}
          /\ (QuadTreeEdgeNodeIntersection(node, qa, qb) = "Inside")
             => TouchesRecordedCorner(node)
          /\ ~TouchesRecordedCorner(node)
             => (QuadTreeEdgeNodeIntersection(node, qa, qb) = "Outside")

\* one query meets a leaf in its recorded corner (Inside) and another leaf in
\* a corner that is not recorded (Outside)
CornerTouchesBothWays ==
    /\ opc = "quad_answered"
    /\ \E node \in ConditionLeavesMet :
          /\ TouchesRecordedCorner(node)
          /\ QuadTreeEdgeNodeIntersection(node, qa, qb) = "Inside"
    /\ \E node \in ConditionLeavesMet :
          /\ ~TouchesRecordedCorner(node)
          /\ \E c \in {node.min, node.max} : TouchesCellAt(node, c)
          /\ QuadTreeEdgeNodeIntersection(node, qa, qb) = "Outside"

\* the tree that quad_tree_build or GeoHoleQuadTree::new has returned
BuiltNodes ==
    IF qtree.kind \in {"quad_tree_build", "GeoHoleQuadTree"} THEN Subnodes(qtree.root) ELSE {}

Center(node) ==
    <<node.min[1] + ((node.max[1] - node.min[1]) \div 2),
      node.min[2] + ((node.max[2] - node.min[2]) \div 2)>>

\* the four quadrants of a rectangle, in the order quad_tree_build takes them
Quadrants(node) ==
    <<<<node.min, Center(node)>>,
      <<<<Center(node)[1], node.min[2]>>, <<node.max[1], Center(node)[2]>>>>,
      <<<<node.min[1], Center(node)[2]>>, <<Center(node)[1], node.max[2]>>>>,
      <<Center(node), node.max>>>>

NonEmptyRect(r) == r[1][1] < r[2][1] /\ r[1][2] < r[2][2]

RectArea(min, max) == (max[1] - min[1]) * (max[2] - min[2])

RECURSIVE AreaSum(_, _)
AreaSum(children, i) ==
    IF i > Len(children) THEN 0
    ELSE RectArea(children[i].min, children[i].max) + AreaSum(children, i + 1)

InteriorsDisjoint(m, n) ==
    \/ m.max[1] <= n.min[1] \/ n.max[1] <= m.min[1]
    \/ m.max[2] <= n.min[2] \/ n.max[2] <= m.min[2]

ChildrenAreQuadrants(node) ==
    /\ Len(node.children) \in 1..4
    /\ Len(node.children) = Cardinality({q \in 1..4 : NonEmptyRect(Quadrants(node)[q])})
    /\ \A i \in 1..Len(node.children) :
          /\ \E q \in 1..4 : /\ NonEmptyRect(Quadrants(node)[q])
                             /\ node.children[i].min = Quadrants(node)[q][1]
                             /\ node.children[i].max = Quadrants(node)[q][2]
          /\ InRect(node.children[i].min, node.min, node.max)
          /\ InRect(node.children[i].max, node.min, node.max)
    /\ \A i, j \in 1..Len(node.children) :
          (i # j) => InteriorsDisjoint(node.children[i], node.children[j])
    /\ AreaSum(node.children, 1) = RectArea(node.min, node.max)

IsUnitCell(node) ==
    node.max = <<node.min[1] + 1, node.min[2] + 1>>

\* C27: in a tree built by quad_tree_build the children of a Branch are the
\* non-empty quadrants of its rectangle split at the integer midpoint, 1 to
\* 4 of them, covering the rectangle with disjoint interiors; a
\* ConditionsSet or Uncertain leaf is a unit cell.
TreeShape ==
    \A node \in BuiltNodes :
        /\ (node.kind = "Branch") => ChildrenAreQuadrants(node)
        /\ (node.kind \in {"ConditionsSet", "Uncertain"}) => IsUnitCell(node)

\* a tree with a Branch over a strip one unit wide (two children), a Branch
\* of four, and leaves of both unit kinds
StripAndSquareSplit ==
    /\ \E node \in BuiltNodes : node.kind = "Branch" /\ Len(node.children) = 2
    /\ \E node \in BuiltNodes : node.kind = "Branch" /\ Len(node.children) = 4
    /\ \E node \in BuiltNodes : node.kind = "ConditionsSet"
    /\ \E node \in BuiltNodes : node.kind = "Uncertain"

\* the rectangle handed to quad_tree_build has min < max on both axes
ProperRect == qtree.min[1] < qtree.max[1] /\ qtree.min[2] < qtree.max[2]

\* the recursive calls of a Branch receive strictly smaller rectangles
ChildrenShrink(node) ==
    \A i \in 1..Len(node.children) :
        RectArea(node.children[i].min, node.children[i].max) < RectArea(node.min, node.max)

\* C28: quad_tree_build returns a node for every rectangle with min < max on
\* both axes, every recursive call being on a strictly smaller rectangle
\* (rectangles of width or height 1 included), and no assertion fails: a unit
\* cell neither disjoint from the hole nor contained in it ends as Uncertain
\* or as a ConditionsSet with at least one condition.
BuildTerminatesWithoutPanic ==
    (qtree.kind = "quad_tree_build" /\ ProperRect)
    => /\ qtree.root.kind # "None"
       /\ \A node \in BuiltNodes :
             /\ node.kind \in {"Outside", "Inside", "Uncertain", "ConditionsSet", "Branch"}
             /\ (node.kind = "Branch") => ChildrenShrink(node)
             /\ (node.kind = "ConditionsSet") => (node.conditions # <<>>)
             /\ (node.kind \in {"Uncertain", "ConditionsSet"})
                => /\ ~RelateIsDisjoint(problem.hole, node.min, node.max)
                   /\ ~RelateIsContains(problem.hole, node.min, node.max)
             /\ (/\ IsUnitCell(node)
                 /\ ~RelateIsDisjoint(problem.hole, node.min, node.max)
                 /\ ~RelateIsContains(problem.hole, node.min, node.max))
                => (node.kind \in {"Uncertain", "ConditionsSet"})

\* a rectangle one unit wide and several high, over the boundary of the hole
StripBuilt ==
    /\ qtree.kind = "quad_tree_build"
    /\ qtree.max[1] = qtree.min[1] + 1
    /\ qtree.max[2] = qtree.min[2] + RectSpan
    /\ qtree.root.kind = "Branch"
    /\ \E node \in BuiltNodes : node.kind = "ConditionsSet" /\ Len(node.conditions) > 1
    /\ \E node \in BuiltNodes : node.kind = "Uncertain"

\* the edges of the figure listed in the order es, those of flip turned round
Relisted(es, flip) ==
    [i \in 1..Len(es) |-> IF i \in flip THEN <<es[i][2], es[i][1]>> ELSE es[i]]

\* the problem with its figure edges listed as edges
WithEdges(edges) ==
    [problem EXCEPT !.figure = Figure(edges, problem.figure.vertices)]

\* C29: with Wallhack the outcome of score_vertices_check_hole for a pose, Ok
\* or EdgesNotFitHole with its count, is the same for every order of
\* figure.edges.
WallhackIgnoresEdgeOrder ==
    (spc = "hole_checked" /\ bonus = "Wallhack")
    => \A es \in Orders(problem.figure.edges) :
          score_vertices_check_hole(WithEdges(es), pose, bonus) = result

\* C29, the orientation of the edges: with Wallhack the outcome is the same
\* whichever way round each edge of figure.edges is written.
WallhackIgnoresEdgeDirection ==
    (spc = "hole_checked" /\ bonus = "Wallhack")
    => \A flip \in SUBSET (1..Len(problem.figure.edges)) :
          score_vertices_check_hole(WithEdges(Relisted(problem.figure.edges, flip)),
                                    pose, bonus) = result

\* the list of frozen indices names one vertex per target of the operating
\* mode, each a different one, and each vertex sits on its target
FrozenOnTargets(pb, s) ==
    LET targets == FrozenTargets(pb, s.params.operating_mode)
        frozen == s.frozen_vertices_indices
    IN  /\ Len(frozen) = Len(targets)
        /\ \A i, j \in 1..Len(frozen) : frozen[i] = frozen[j] => i = j
        /\ \A i \in 1..Len(frozen) : s.vertices_cur[frozen[i]] = targets[i]

\* temp, steps and fitness_cur as the constructor sets them
Rewound(pb, s) ==
    /\ s.temp = s.params.max_temp
    /\ s.steps = 0
    /\ s.fitness_cur = FitnessOf(pb, s.vertices_cur, s.use_bonus)

\* C30: when reset() has returned Ok the solver is as a freshly constructed
\* one: temp is max_temp, steps is 0, fitness_cur is the fitness of
\* vertices_cur, and frozen_vertices_indices holds exactly one distinct index
\* per frozen target of the operating mode, with vertices_cur at that index
\* equal to the target, so that the list has not grown
ResetRestoresFreshState ==
    returned = Returned("reset", "Ok") => Rewound(problem, sa) /\ FrozenOnTargets(problem, sa)

\* C30, the constructor: what reset is measured against holds after new
NewBuildsFreshState ==
    returned = Returned("new", "Ok") => Rewound(problem, sa) /\ FrozenOnTargets(problem, sa)

\* C30, the part that holds: temp, steps and fitness_cur after reset
ResetRewinds ==
    returned = Returned("reset", "Ok") => Rewound(problem, sa)

\* C30, the modes that freeze nothing: reset leaves the list empty
ResetWithoutTargets ==
    (/\ returned = Returned("reset", "Ok")
     /\ FrozenTargets(problem, sa.params.operating_mode) = <<>>)
        => FrozenOnTargets(problem, sa)

====
